---- MODULE Spec2Model ----
(***************************************************************************)
(* A model of the import resolution and dependency graph engine of         *)
(* DependencyMapper (src/dependency_mapper.py).                            *)
(*                                                                         *)
(* Python strings are modelled as sequences of tokens.  A token is either  *)
(* one of the two separator characters the code operates on, "." and "/",  *)
(* or a maximal run of other characters (a name such as "pkg" or "py").    *)
(* So the path 'pkg/mod.py' is <<"pkg", "/", "mod", ".", "py">> and the    *)
(* specifier 'os.path' is <<"os", ".", "path">>.  Every string operation   *)
(* of the code (split, replace, dirname, join, normpath, relpath,          *)
(* endswith, the 'in' test) is computed on these sequences.  Paths follow  *)
(* the posixpath rules.                                                    *)
(***************************************************************************)
EXTENDS Naturals, Sequences, FiniteSets, TLC

DOT == "."
SEP == "/"
PY  == <<DOT, "py">>

\* Python's None, as returned by resolve_import_path and as the default
\* start_file of map_dependencies.
None == <<"<None>">>

(***************************************************************************)
(* Bounds of the model.                                                    *)
(***************************************************************************)
\* The total number of import statements in a project mapped from a start
\* file.
MaxImports == 3
\* The total number of import statements in a project mapped as a whole
\* tree, where every source file is processed whatever the imports.
MaxTreeImports == 2
\* The number of dotted segments of a specifier given to the Classifier
\* and to the Resolver.
MaxSegments == 2
\* The depth of recursion the interpreter allows (Python's recursion
\* limit, scaled down); no project of the model nests that deep.
MaxDepth == 6
\* The total number of import statements in a project one of whose files
\* cannot be parsed.
MaxFaultImports == 2
\* The same, in a project mapped as a whole tree.
MaxFaultTreeImports == 1
\* The total number of import statements in a project that is mapped more
\* than once, and the number of times it is mapped.
MaxSessionImports == 2
MaxRuns == 2
\* The total number of dependencies in a Dependency Map given to the
\* Analyzer.
MaxEdges == 3

(***************************************************************************)
(* String and path helpers.                                                *)
(***************************************************************************)
RECURSIVE IndexOf(_, _, _)
\* The least index >= i at which token c occurs in s, or 0 (str.find).
IndexOf(s, c, i) ==
  IF i > Len(s) THEN 0
  ELSE IF s[i] = c THEN i
  ELSE IndexOf(s, c, i + 1)

RECURSIVE LastIndexOf(_, _, _)
\* The greatest index <= i at which token c occurs in s, or 0 (str.rfind).
LastIndexOf(s, c, i) ==
  IF i = 0 THEN 0
  ELSE IF s[i] = c THEN i
  ELSE LastIndexOf(s, c, i - 1)

\* c in s
Contains(s, c) == IndexOf(s, c, 1) /= 0

RECURSIVE Split(_, _)
\* s.split(c): the list of the pieces of s between occurrences of c.
Split(s, c) ==
  LET i == IndexOf(s, c, 1)
  IN  IF i = 0 THEN <<s>>
      ELSE <<SubSeq(s, 1, i - 1)>> \o Split(SubSeq(s, i + 1, Len(s)), c)

\* s.replace(a, b)
Replace(s, a, b) == [i \in 1..Len(s) |-> IF s[i] = a THEN b ELSE s[i]]

\* s.endswith(t)
EndsWith(s, t) ==
  /\ Len(s) >= Len(t)
  /\ SubSeq(s, Len(s) - Len(t) + 1, Len(s)) = t

RECURSIVE JoinWith(_, _)
\* c.join(parts)
JoinWith(parts, c) ==
  IF parts = <<>> THEN <<>>
  ELSE IF Len(parts) = 1 THEN parts[1]
  ELSE parts[1] \o <<c>> \o JoinWith(Tail(parts), c)

RECURSIVE RStrip(_, _)
\* s.rstrip(c)
RStrip(s, c) ==
  IF s /= <<>> /\ s[Len(s)] = c THEN RStrip(SubSeq(s, 1, Len(s) - 1), c)
  ELSE s

\* os.path.isabs(p)
IsAbs(p) == p /= <<>> /\ p[1] = SEP

\* os.path.dirname(p)
Dirname(p) ==
  LET i    == LastIndexOf(p, SEP, Len(p))
      head == SubSeq(p, 1, i)
  IN  IF RStrip(head, SEP) = <<>> THEN head ELSE RStrip(head, SEP)

\* os.path.basename(p)
Basename(p) == SubSeq(p, LastIndexOf(p, SEP, Len(p)) + 1, Len(p))

\* os.path.join(a, b)
PathJoin(a, b) ==
  IF IsAbs(b) THEN b
  ELSE IF a = <<>> \/ a[Len(a)] = SEP THEN a \o b
  ELSE a \o <<SEP>> \o b

RECURSIVE NormComps(_, _, _)
\* The loop of os.path.normpath over the components of a path: empty and
\* '.' components are dropped and '..' cancels the component before it.
NormComps(comps, new, initial_slash) ==
  IF comps = <<>> THEN new
  ELSE
    LET comp == Head(comps)
    IN  IF comp = <<>> \/ comp = <<DOT>>
          THEN NormComps(Tail(comps), new, initial_slash)
        ELSE IF \/ comp /= <<DOT, DOT>>
                \/ (~initial_slash /\ new = <<>>)
                \/ (new /= <<>> /\ new[Len(new)] = <<DOT, DOT>>)
          THEN NormComps(Tail(comps), Append(new, comp), initial_slash)
        ELSE IF new /= <<>>
          THEN NormComps(Tail(comps), SubSeq(new, 1, Len(new) - 1), initial_slash)
        ELSE NormComps(Tail(comps), new, initial_slash)

\* os.path.normpath(p)
NormPath(p) ==
  LET initial_slash == IsAbs(p)
      comps == NormComps(Split(p, SEP), <<>>, initial_slash)
      path  == (IF initial_slash THEN <<SEP>> ELSE <<>>) \o JoinWith(comps, SEP)
  IN  IF path = <<>> THEN <<DOT>> ELSE path

\* The non-empty components of a path.
Comps(p) == SelectSeq(Split(p, SEP), LAMBDA x : x /= <<>>)

RECURSIVE CommonLen(_, _)
\* The length of the common prefix of two component lists.
CommonLen(a, b) ==
  IF a = <<>> \/ b = <<>> \/ Head(a) /= Head(b) THEN 0
  ELSE 1 + CommonLen(Tail(a), Tail(b))

\* os.path.relpath(path, start), both absolute.
RelPath(path, start) ==
  LET start_list == Comps(NormPath(start))
      path_list  == Comps(NormPath(path))
      i          == CommonLen(start_list, path_list)
      rel_list   == [k \in 1..(Len(start_list) - i) |-> <<DOT, DOT>>]
                      \o SubSeq(path_list, i + 1, Len(path_list))
  IN  IF rel_list = <<>> THEN <<DOT>> ELSE JoinWith(rel_list, SEP)

(***************************************************************************)
(* State.                                                                  *)
(***************************************************************************)
VARIABLES
  fs,               \* the filesystem snapshot under root_dir: a function from
                    \* the project-relative path of each file to its content
  start_file,       \* the argument of map_dependencies (None: whole tree)
  pc,               \* "new": constructed; "running": in map_dependencies;
                    \* "done": map_dependencies has returned; "call": a
                    \* single function is being applied to drawn inputs;
                    \* "returned": that function has returned
  walk,             \* the files os.walk has still to yield (whole-tree mode)
  stack,            \* the frames of _map_dependencies_recursive, innermost last
  dependency_map,   \* self.dependency_map
  processed_files,  \* self.processed_files
  parse_calls,      \* for each path, how often extract_imports was called on it
  probes,           \* every os.path.exists test made by resolve_import_path,
                    \* as [import_name, current_file, path]
  diagnostics,      \* for each printed 'Could not resolve import' message,
                    \* as [import_name, current_file], how often it was printed
  call              \* the inputs and the result of a single function call

vars == <<fs, start_file, pc, walk, stack, dependency_map, processed_files,
          parse_calls, probes, diagnostics, call>>

(***************************************************************************)
(* DependencyMapper.__init__: the root and the classification tables.      *)
(***************************************************************************)
\* self.root_dir: an absolute directory.
root_dir == <<SEP, "proj">>

std_lib_modules ==
  {
    <<"os">>, <<"sys">>, <<"time">>, <<"datetime">>, <<"tkinter">>,
    <<"sqlite3">>, <<"json">>, <<"re">>, <<"ast">>, <<"typing">>,
    <<"calendar">>, <<"pandas">>, <<"docx">>, <<"pdfkit">>, <<"smtplib">>,
    <<"email">>, <<"tempfile">>, <<"webbrowser">>, <<"subprocess">>,
    <<"math">>, <<"random">>, <<"logging">>, <<"collections">>,
    <<"functools">>, <<"itertools">>, <<"pathlib">>, <<"shutil">>,
    <<"glob">>, <<"argparse">>, <<"configparser">>, <<"csv">>, <<"hashlib">>,
    <<"uuid">>, <<"socket">>, <<"threading">>, <<"multiprocessing">>,
    <<"queue">>, <<"urllib">>, <<"http">>, <<"ftplib">>, <<"ssl">>,
    <<"xml">>, <<"html">>, <<"unittest">>, <<"pytest">>, <<"doctest">>,
    <<"pdb">>, <<"traceback">>, <<"warnings">>, <<"contextlib">>, <<"abc">>,
    <<"copy">>, <<"enum">>, <<"io">>, <<"pickle">>, <<"shelve">>, <<"dbm">>,
    <<"zlib">>, <<"gzip">>, <<"zipfile">>, <<"tarfile">>, <<"platform">>,
    <<"ctypes">>, <<"gc">>, <<"inspect">>, <<"importlib">>,
    <<"pkg_resources">>, <<"setuptools">>, <<"distutils">>, <<"venv">>,
    <<"virtualenv">>, <<"pip">>, <<"wheel">>, <<"base64">>, <<"bz2">>,
    <<"codecs">>, <<"crypt">>, <<"curses">>, <<"decimal">>, <<"difflib">>,
    <<"filecmp">>, <<"fnmatch">>, <<"fractions">>, <<"getopt">>,
    <<"getpass">>, <<"gettext">>, <<"grp">>, <<"heapq">>, <<"hmac">>,
    <<"imaplib">>, <<"imp">>, <<"keyword">>, <<"linecache">>, <<"locale">>,
    <<"lzma">>, <<"mailbox">>, <<"mimetypes">>, <<"mmap">>,
    <<"modulefinder">>, <<"netrc">>, <<"numbers">>, <<"operator">>,
    <<"optparse">>, <<"os", ".", "path">>, <<"pprint">>, <<"pwd">>,
    <<"py_compile">>, <<"quopri">>, <<"reprlib">>, <<"rlcompleter">>,
    <<"sched">>, <<"secrets">>, <<"selectors">>, <<"signal">>, <<"site">>,
    <<"smtpd">>, <<"sndhdr">>, <<"spwd">>, <<"statistics">>, <<"string">>,
    <<"stringprep">>, <<"struct">>, <<"sunau">>, <<"symbol">>,
    <<"symtable">>, <<"sysconfig">>, <<"tabnanny">>, <<"telnetlib">>,
    <<"textwrap">>, <<"this">>, <<"timeit">>, <<"token">>, <<"tokenize">>,
    <<"trace">>, <<"tty">>, <<"turtle">>, <<"types">>, <<"unicodedata">>,
    <<"uu">>, <<"wave">>, <<"weakref">>, <<"wsgiref">>, <<"xdrlib">>,
    <<"zipapp">>, <<"zipimport">>
  }

third_party_modules ==
  {
    <<"numpy">>, <<"pandas">>, <<"matplotlib">>, <<"seaborn">>, <<"scipy">>,
    <<"sklearn">>, <<"tensorflow">>, <<"torch">>, <<"keras">>, <<"django">>,
    <<"flask">>, <<"fastapi">>, <<"requests">>, <<"beautifulsoup4">>,
    <<"bs4">>, <<"lxml">>, <<"sqlalchemy">>, <<"pymongo">>, <<"redis">>,
    <<"celery">>, <<"pytest">>, <<"unittest">>, <<"nose">>, <<"pillow">>,
    <<"opencv">>, <<"cv2">>, <<"pydantic">>, <<"click">>, <<"typer">>,
    <<"rich">>, <<"tqdm">>, <<"boto3">>, <<"botocore">>, <<"awscli">>,
    <<"azure">>, <<"google">>, <<"firebase">>, <<"pymysql">>, <<"psycopg2">>,
    <<"pyodbc">>, <<"cx_Oracle">>, <<"pyyaml">>, <<"toml">>,
    <<"configparser">>, <<"dotenv">>, <<"mock">>, <<"faker">>,
    <<"factory_boy">>, <<"coverage">>, <<"flake8">>, <<"pylint">>,
    <<"mypy">>, <<"black">>, <<"isort">>, <<"docx">>, <<"pdfkit">>,
    <<"reportlab">>, <<"openpyxl">>, <<"xlrd">>, <<"xlwt">>,
    <<"xlsxwriter">>, <<"pywin32">>, <<"pyinstaller">>, <<"cx_Freeze">>,
    <<"py2exe">>, <<"pyqt5">>, <<"pyside2">>, <<"wxpython">>, <<"kivy">>,
    <<"pygame">>, <<"pyglet">>, <<"pycairo">>, <<"pygtk">>, <<"pycrypto">>,
    <<"cryptography">>, <<"bcrypt">>, <<"passlib">>, <<"jwt">>, <<"oauth2">>,
    <<"oauthlib">>, <<"authlib">>, <<"scrapy">>, <<"selenium">>,
    <<"splinter">>, <<"mechanize">>, <<"twisted">>, <<"tornado">>,
    <<"aiohttp">>, <<"asyncio">>, <<"uvicorn">>, <<"gunicorn">>,
    <<"waitress">>, <<"werkzeug">>, <<"jinja2">>, <<"mako">>,
    <<"chameleon">>, <<"pyramid">>, <<"zope">>, <<"plone">>, <<"wagtail">>,
    <<"ckan">>, <<"odoo">>, <<"sentry_sdk">>, <<"raven">>, <<"loguru">>,
    <<"structlog">>, <<"logging">>, <<"alembic">>, <<"peewee">>, <<"pony">>,
    <<"tortoise">>, <<"gino">>, <<"piccolo">>, <<"marshmallow">>,
    <<"cerberus">>, <<"voluptuous">>, <<"jsonschema">>, <<"graphene">>,
    <<"strawberry">>, <<"ariadne">>, <<"graphql">>, <<"grpc">>,
    <<"protobuf">>, <<"thrift">>, <<"avro">>, <<"msgpack">>, <<"cbor2">>,
    <<"ujson">>, <<"orjson">>, <<"simplejson">>, <<"rapidjson">>,
    <<"pyarrow">>, <<"fastavro">>, <<"dask">>, <<"xarray">>, <<"numba">>,
    <<"cython">>, <<"pypy">>, <<"jax">>, <<"mxnet">>, <<"theano">>,
    <<"caffe">>, <<"paddlepaddle">>, <<"transformers">>, <<"spacy">>,
    <<"nltk">>, <<"gensim">>, <<"textblob">>, <<"polyglot">>,
    <<"stanfordnlp">>, <<"allennlp">>, <<"fairseq">>, <<"huggingface">>,
    <<"tokenizers">>, <<"sentencepiece">>, <<"wordcloud">>, <<"networkx">>,
    <<"igraph">>, <<"pydot">>, <<"pygraphviz">>, <<"plotly">>, <<"bokeh">>,
    <<"altair">>, <<"ggplot">>, <<"folium">>, <<"geopandas">>, <<"shapely">>,
    <<"fiona">>, <<"pyproj">>, <<"rasterio">>, <<"gdal">>, <<"cartopy">>,
    <<"basemap">>, <<"osmnx">>, <<"pysal">>, <<"geopy">>, <<"geocoder">>,
    <<"reverse_geocoder">>, <<"pymc3">>, <<"pystan">>, <<"fbprophet">>,
    <<"statsmodels">>, <<"lifelines">>, <<"sympy">>, <<"sage">>,
    <<"mpmath">>, <<"gmpy2">>, <<"pycryptodome">>, <<"paramiko">>,
    <<"fabric">>, <<"invoke">>, <<"ansible">>, <<"salt">>, <<"puppet">>,
    <<"chef">>, <<"docker">>, <<"kubernetes">>, <<"openshift">>, <<"helm">>,
    <<"terraform">>, <<"pulumi">>, <<"troposphere">>, <<"cloudformation">>,
    <<"boto">>, <<"libcloud">>, <<"azure-sdk">>, <<"google-cloud">>,
    <<"firebase-admin">>, <<"suds">>, <<"zeep">>, <<"spyne">>, <<"soaplib">>,
    <<"pysimplesoap">>, <<"pysftp">>, <<"ftputil">>, <<"pyftpdlib">>,
    <<"pyinotify">>, <<"watchdog">>, <<"winreg">>, <<"win32api">>,
    <<"win32con">>, <<"win32gui">>, <<"win32process">>, <<"win32service">>,
    <<"pyautogui">>, <<"pynput">>, <<"pyperclip">>, <<"clipboard">>,
    <<"pyaudio">>, <<"sounddevice">>, <<"pygame", ".", "mixer">>,
    <<"simpleaudio">>, <<"pydub">>, <<"librosa">>, <<"ffmpeg">>,
    <<"imageio">>, <<"moviepy">>, <<"opencv-python">>, <<"scikit-image">>,
    <<"scikit-learn">>, <<"xgboost">>, <<"lightgbm">>, <<"catboost">>,
    <<"h2o">>, <<"pyspark">>, <<"ray">>, <<"modin">>, <<"vaex">>,
    <<"datatable">>, <<"polars">>, <<"cudf">>, <<"cuml">>, <<"cugraph">>,
    <<"cuspatial">>, <<"cupy">>, <<"jaxlib">>, <<"tensorflow-gpu">>,
    <<"torch", ".", "cuda">>, <<"horovod">>, <<"petastorm">>, <<"mlflow">>,
    <<"wandb">>, <<"tensorboard">>, <<"sacred">>, <<"neptune">>,
    <<"comet_ml">>, <<"optuna">>, <<"hyperopt">>, <<"ray", ".", "tune">>,
    <<"skopt">>, <<"nevergrad">>, <<"ax">>, <<"botorch">>, <<"gpytorch">>,
    <<"pyro">>, <<"pymc">>, <<"edward">>, <<"zhusuan">>, <<"emcee">>,
    <<"pomegranate">>, <<"pgmpy">>, <<"bayespy">>, <<"numpyro">>,
    <<"tensorflow_probability">>, <<"arviz">>, <<"corner">>, <<"getdist">>,
    <<"astropy">>, <<"sunpy">>, <<"astroquery">>, <<"astroml">>,
    <<"astropy", ".", "io">>, <<"astropy", ".", "table">>,
    <<"astropy", ".", "units">>, <<"astropy", ".", "constants">>,
    <<"astropy", ".", "coordinates">>, <<"astropy", ".", "time">>,
    <<"astropy", ".", "wcs">>, <<"astropy", ".", "io", ".", "fits">>,
    <<"astropy", ".", "io", ".", "ascii">>,
    <<"astropy", ".", "io", ".", "votable">>,
    <<"astropy", ".", "io", ".", "misc">>,
    <<"astropy", ".", "io", ".", "registry">>
  }

(***************************************************************************)
(* Paths and the filesystem.                                               *)
(***************************************************************************)
get_absolute_path(file_path) ==
  IF IsAbs(file_path) THEN file_path
  ELSE NormPath(PathJoin(root_dir, file_path))

get_relative_path(file_path) ==
  RelPath(get_absolute_path(file_path), root_dir)

\* os.path.exists(abs_path) in the snapshot: abs_path names a file of the
\* snapshot, or a directory on the way to one.
Exists(abs_path) ==
  LET p == Comps(NormPath(abs_path))
  IN  \E f \in DOMAIN fs :
        LET g == Comps(root_dir) \o Comps(f)
        IN  Len(p) <= Len(g) /\ SubSeq(g, 1, Len(p)) = p

\* abs_path names a regular file of the snapshot (open() succeeds).
IsFile(abs_path) == RelPath(abs_path, root_dir) \in DOMAIN fs

(***************************************************************************)
(* Module Classifier.                                                      *)
(***************************************************************************)
\* A Classifier that looks the whole specifier up in the tables.
whole_name_external(module_name) ==
  module_name \in std_lib_modules \/ module_name \in third_party_modules

\* A Classifier that leaves the standard-library table out.
third_party_only(module_name) ==
  Split(module_name, DOT)[1] \in third_party_modules

is_external_module(module_name) ==
  LET first_part == Split(module_name, DOT)[1]
  IN  first_part \in std_lib_modules \/ first_part \in third_party_modules

(***************************************************************************)
(* Path Resolver.                                                          *)
(***************************************************************************)
\* The list possible_paths built by resolve_import_path.
possible_paths(import_name, current_file) ==
  LET segments    == Split(import_name, DOT)
      last        == segments[Len(segments)]
      direct      == Replace(import_name, DOT, SEP) \o PY
      package     == Replace(import_name, DOT, SEP) \o <<SEP, "__init__">> \o PY
      current_dir == Dirname(current_file)
      sibling     == PathJoin(current_dir, last \o PY)
      parent_dir  == Dirname(current_file)
      relative    == PathJoin(parent_dir, last \o PY)
  IN  <<direct, package, sibling>>
        \o (IF Contains(current_file, DOT) THEN <<relative>> ELSE <<>>)

RECURSIVE probe_paths(_, _)
\* The loop over possible_paths: the paths tested before the first that
\* exists, that one included, and the path returned (None if none exists).
probe_paths(paths, tested) ==
  IF paths = <<>> THEN [path |-> None, tested |-> tested]
  ELSE
    LET abs_path == get_absolute_path(Head(paths))
    IN  IF Exists(abs_path)
          THEN [path   |-> get_relative_path(abs_path),
                tested |-> Append(tested, abs_path)]
        ELSE probe_paths(Tail(paths), Append(tested, abs_path))

\* A Resolver that, when no candidate exists, answers with its first
\* candidate and reports nothing.
resolve_unchecked(import_name, current_file) ==
  IF is_external_module(import_name)
    THEN [path |-> None, tested |-> <<>>, printed |-> FALSE]
  ELSE
    LET paths == possible_paths(import_name, current_file)
        r     == probe_paths(paths, <<>>)
    IN  [path    |-> IF r.path = None THEN paths[1] ELSE r.path,
         tested  |-> r.tested,
         printed |-> FALSE]

\* resolve_import_path: the path returned, the existence tests made, in
\* order, and whether 'Could not resolve import' was printed.
resolve_import_path(import_name, current_file) ==
  IF is_external_module(import_name)
    THEN [path |-> None, tested |-> <<>>, printed |-> FALSE]
  ELSE
    LET r == probe_paths(possible_paths(import_name, current_file), <<>>)
    IN  [path |-> r.path, tested |-> r.tested, printed |-> r.path = None]

(***************************************************************************)
(* Source Parser.                                                          *)
(*                                                                         *)
(* The content of a file is the list of its statements.  A statement is    *)
(* 'import n1, n2' ([kind |-> "import", names |-> <<n1, n2>>]),            *)
(* 'from m import ...' ([kind |-> "from", module |-> m], with module None  *)
(* for 'from . import x'), or text that is not Python                      *)
(* ([kind |-> "bad"]), on which ast.parse raises SyntaxError.              *)
(***************************************************************************)
Import(names)  == [kind |-> "import", names |-> names, module |-> None]
ImportFrom(m)  == [kind |-> "from", names |-> <<>>, module |-> m]
BadSyntax      == [kind |-> "bad", names |-> <<>>, module |-> None]

RECURSIVE walk_names(_)
\* A Parser that takes the names a from-import brings in for specifiers,
\* too.
walk_names(stmts) ==
  IF stmts = <<>> THEN <<>>
  ELSE
    LET node == Head(stmts)
    IN  (IF node.kind = "import" THEN node.names
         ELSE IF node.kind = "from" /\ node.module /= None /\ node.module /= <<>>
           THEN <<node.module>> \o node.names
         ELSE <<>>) \o walk_names(Tail(stmts))

RECURSIVE walk_imports(_)
\* The loop over ast.walk(tree) collecting the imported names.
walk_imports(stmts) ==
  IF stmts = <<>> THEN <<>>
  ELSE
    LET node == Head(stmts)
    IN  (IF node.kind = "import" THEN node.names
         ELSE IF node.kind = "from" /\ node.module /= None /\ node.module /= <<>>
           THEN <<node.module>>
         ELSE <<>>) \o walk_imports(Tail(stmts))

\* A Parser that passes over the text it cannot parse and keeps the
\* imports around it.
extract_imports_lenient(file_path) ==
  LET abs_path == get_absolute_path(file_path)
  IN  IF ~Exists(abs_path) \/ ~IsFile(abs_path) THEN <<>>
      ELSE walk_imports(fs[RelPath(abs_path, root_dir)])

extract_imports(file_path) ==
  LET abs_path == get_absolute_path(file_path)
  IN  IF ~Exists(abs_path) THEN <<>>
      ELSE IF ~IsFile(abs_path) THEN <<>>
      ELSE
        LET content == fs[RelPath(abs_path, root_dir)]
        IN  IF \E i \in 1..Len(content) : content[i].kind = "bad" THEN <<>>
            ELSE walk_imports(content)

(***************************************************************************)
(* The projects the model is checked on.                                   *)
(***************************************************************************)
\* Specifiers.
SpecA    == <<"a">>
SpecB    == <<"b">>
SpecC    == <<"c">>
SpecPkgC == <<"pkg", DOT, "c">>
SpecJson == <<"json">>

\* Project-relative paths.
FileA     == <<"a">> \o PY
FileB     == <<"b">> \o PY
FilePkgC  == <<"pkg", SEP, "c">> \o PY
FileJson  == <<"json">> \o PY
FileNotes == <<"pkg", SEP, "notes", DOT, "txt">>

\* The source files whose content varies, and the files that are always
\* the same: json.py, which has the path of an external module, and
\* pkg/notes.txt, which is no source file.
VaryingFiles == {FileA, FileB, FilePkgC}
FixedFiles   == {FileJson, FileNotes}

\* The statements a source file is made of.
Statements ==
  { Import(<<SpecA>>),
    ImportFrom(SpecB),
    Import(<<SpecPkgC>>),
    Import(<<SpecJson, SpecC>>) }

RECURSIVE SeqsUpTo(_, _)
\* The sequences over S of length at most n.
SeqsUpTo(S, n) ==
  IF n = 0 THEN {<<>>}
  ELSE LET shorter == SeqsUpTo(S, n - 1)
       IN  shorter \cup {Append(s, x) : s \in {t \in shorter : Len(t) = n - 1}, x \in S}

RECURSIVE Contents(_, _)
\* The contents of the files in D with at most n statements in all.
Contents(D, n) ==
  IF D = {} THEN {<<>>}
  ELSE LET f == CHOOSE f \in D : TRUE
       IN  UNION { { (f :> s) @@ rest : rest \in Contents(D \ {f}, n - Len(s)) } :
                   s \in SeqsUpTo(Statements, n) }

\* The snapshots: the varying files with at most n statements in all,
\* beside the fixed files.
Snapshots(n) ==
  { content @@ [f \in FixedFiles |-> <<>>] :
      content \in Contents(VaryingFiles, n) }

\* The start_file arguments: main.py's place is taken by a.py, given in a
\* form that is not normalized; a file in a package; a file that is not
\* there; None for the whole tree.
FileMissing == <<"x">> \o PY
StartFiles  == { <<DOT, SEP>> \o FileA, FilePkgC, FileMissing, None }

(***************************************************************************)
(* os.walk(root_dir).                                                      *)
(***************************************************************************)
RECURSIVE Perms(_)
\* The orders in which a directory listing can come.
Perms(S) ==
  IF S = {} THEN {<<>>}
  ELSE UNION { {<<x>> \o p : p \in Perms(S \ {x})} : x \in S }

RECURSIVE WalkDir(_)
RECURSIVE WalkDirs(_)
\* The orders in which os.walk, top-down, yields the files under the
\* directory dir (its components below root_dir): the files of dir in the
\* order of its listing, then each subdirectory in turn.
WalkDir(dir) ==
  LET under == {f \in DOMAIN fs :
                  /\ Len(Comps(f)) > Len(dir)
                  /\ SubSeq(Comps(f), 1, Len(dir)) = dir}
      files == {f \in under : Len(Comps(f)) = Len(dir) + 1}
      dirs  == {SubSeq(Comps(f), 1, Len(dir) + 1) : f \in under \ files}
  IN  UNION { {fo \o rest : rest \in WalkDirs(ds)} :
              fo \in Perms(files), ds \in Perms(dirs) }

WalkDirs(ds) ==
  IF ds = <<>> THEN {<<>>}
  ELSE UNION { {first \o rest : rest \in WalkDirs(Tail(ds))} :
               first \in WalkDir(Head(ds)) }

(***************************************************************************)
(* Dependency Graph Builder.                                               *)
(***************************************************************************)
Frame(file_path) ==
  [file_path |-> file_path, at |-> "entry", dependencies |-> <<>>, next |-> 1]

\* A return that abandons the calls still under way.
Unwound == <<>>

Top == stack[Len(stack)]
Pop == SubSeq(stack, 1, Len(stack) - 1)

\* The counts c with n(x) added to the count of each x in S.
Counted(c, S, n(_)) ==
  [x \in DOMAIN c \cup S |->
     (IF x \in DOMAIN c THEN c[x] ELSE 0) + (IF x \in S THEN n(x) ELSE 0)]

\* How often extract_imports has been called on file_path.
ParseCount(file_path) ==
  IF file_path \in DOMAIN parse_calls THEN parse_calls[file_path] ELSE 0

\* How often the diagnostic d has been printed.
Printed(d) == IF d \in DOMAIN diagnostics THEN diagnostics[d] ELSE 0

RECURSIVE resolve_all(_, _)
\* The loop of _map_dependencies_recursive over the imports of file_path:
\* the result of resolve_import_path for each, in order.
resolve_all(imports, file_path) ==
  IF imports = <<>> THEN <<>>
  ELSE <<[import_name |-> Head(imports)] @@
         resolve_import_path(Head(imports), file_path)>>
         \o resolve_all(Tail(imports), file_path)

\* A Builder that leaves out of a list the files that are processed
\* already.
dependencies_unvisited(resolved, file_path) ==
  SelectSeq([i \in 1..Len(resolved) |-> resolved[i].path],
            LAMBDA p : p /= None /\ p /= file_path /\ p \notin processed_files)

\* A list of dependencies with the self-references kept.
dependencies_with_self(resolved, file_path) ==
  LET kept == SelectSeq(resolved, LAMBDA r : r.path /= None /\ r.path /= <<>>)
  IN  [i \in 1..Len(kept) |-> kept[i].path]

\* A list of dependencies that ends after its first entry.
dependencies_first_only(resolved, file_path) ==
  LET kept == SelectSeq(resolved,
                LAMBDA r : r.path /= None /\ r.path /= <<>> /\ r.path /= file_path)
  IN  [i \in 1..(IF kept = <<>> THEN 0 ELSE 1) |-> kept[i].path]

\* The list 'dependencies' built from the resolutions: every resolved
\* path that is not file_path itself, in the order of the imports.
dependencies_of(resolved, file_path) ==
  LET kept == SelectSeq(resolved,
                LAMBDA r : r.path /= None /\ r.path /= <<>> /\ r.path /= file_path)
  IN  [i \in 1..Len(kept) |-> kept[i].path]

\* A visited test that never finds a file processed.
never_processed(file_path) == FALSE

\* A visited test that knows only the files whose call is on the stack.
in_progress_only(file_path) ==
  \E i \in 1..(Len(stack) - 1) : stack[i].file_path = file_path

\* A source-file test that takes every file.
any_file(file) == TRUE

\* 'if file_path in self.processed_files'
already_processed(file_path) == file_path \in processed_files

\* 'if file.endswith('.py')'
is_source_file(file) == EndsWith(file, PY)

\* The existence tests made while resolving the imports of file_path.
probes_of(resolved, file_path) ==
  UNION { { [import_name |-> resolved[i].import_name,
             current_file |-> file_path,
             path |-> resolved[i].tested[k]] :
              k \in 1..Len(resolved[i].tested) } :
          i \in 1..Len(resolved) }

\* The diagnostics after those printed while resolving the imports of
\* file_path.
printed_of(resolved, file_path) ==
  Counted(diagnostics,
          { [import_name |-> resolved[i].import_name, current_file |-> file_path] :
              i \in {j \in 1..Len(resolved) : resolved[j].printed} },
          LAMBDA d : Cardinality({i \in 1..Len(resolved) :
                        /\ resolved[i].printed
                        /\ resolved[i].import_name = d.import_name}))

\* Where the Builder stands: before the call of map_dependencies, in its
\* loop over os.walk (or past it) with no recursion under way, at the top
\* of _map_dependencies_recursive, or in its loop over the dependencies.
AtCall  == pc = "new"
AtWalk  == pc = "running" /\ stack = <<>>
AtEntry == pc = "running" /\ stack /= <<>> /\ Top.at = "entry"
AtLoop  == pc = "running" /\ stack /= <<>> /\ Top.at = "loop"

Init ==
  /\ \/ start_file \in StartFiles \ {None} /\ fs \in Snapshots(MaxImports)
     \/ start_file = None /\ fs \in Snapshots(MaxTreeImports)
  /\ pc = "new"
  /\ walk = <<>>
  /\ stack = <<>>
  /\ dependency_map = <<>>
  /\ processed_files = {}
  /\ parse_calls = <<>>
  /\ probes = {}
  /\ diagnostics = <<>>
  /\ call = <<>>

\* map_dependencies(start_file), start_file given: the recursion is
\* entered on the relative path of start_file.
MapFromStart ==
  /\ AtCall
  /\ start_file /= None /\ start_file /= <<>>
  /\ pc' = "running"
  /\ stack' = <<Frame(get_relative_path(start_file))>>
  /\ UNCHANGED <<fs, start_file, walk, dependency_map, processed_files,
                 parse_calls, probes, diagnostics, call>>

\* map_dependencies(None): os.walk enumerates the files under root_dir.
MapWholeTree ==
  /\ AtCall
  /\ start_file = None \/ start_file = <<>>
  /\ pc' = "running"
  /\ walk' \in WalkDir(<<>>)
  /\ UNCHANGED <<fs, start_file, stack, dependency_map, processed_files,
                 parse_calls, probes, diagnostics, call>>

\* The loop over os.walk: a file that ends in '.py' is mapped.
WalkSource ==
  /\ AtWalk /\ walk /= <<>>
  /\ is_source_file(Basename(Head(walk)))
  /\ LET root      == PathJoin(root_dir, Dirname(Head(walk)))
         file_path == PathJoin(root, Basename(Head(walk)))
         rel_path  == get_relative_path(file_path)
     IN  stack' = <<Frame(rel_path)>>
  /\ walk' = Tail(walk)
  /\ UNCHANGED <<fs, start_file, pc, dependency_map, processed_files,
                 parse_calls, probes, diagnostics, call>>

\* The loop over os.walk: any other file is passed over.
WalkOther ==
  /\ AtWalk /\ walk /= <<>>
  /\ ~is_source_file(Basename(Head(walk)))
  /\ walk' = Tail(walk)
  /\ UNCHANGED <<fs, start_file, pc, stack, dependency_map, processed_files,
                 parse_calls, probes, diagnostics, call>>

\* _map_dependencies_recursive(file_path), file_path already processed.
SkipProcessed ==
  /\ AtEntry
  /\ already_processed(Top.file_path)
  /\ stack' = Pop
  /\ UNCHANGED <<fs, start_file, pc, walk, dependency_map, processed_files,
                 parse_calls, probes, diagnostics, call>>

\* _map_dependencies_recursive(file_path), up to the storing of the
\* dependencies of file_path.
ProcessFile ==
  /\ AtEntry
  /\ ~already_processed(Top.file_path)
  /\ \E file_path \in {Top.file_path} :
     \E resolved \in {resolve_all(extract_imports(file_path), file_path)} :
     \E dependencies \in {dependencies_of(resolved, file_path)} :
       /\ processed_files' = processed_files \cup {file_path}
       /\ parse_calls' = Counted(parse_calls, {file_path}, LAMBDA f : 1)
       /\ probes' = probes \cup probes_of(resolved, file_path)
       /\ diagnostics' = printed_of(resolved, file_path)
       /\ dependency_map' =
            [f \in DOMAIN dependency_map \cup {file_path} |->
               IF f = file_path THEN dependencies ELSE dependency_map[f]]
       /\ stack' = [stack EXCEPT ![Len(stack)] =
                      [@ EXCEPT !.at = "loop", !.dependencies = dependencies]]
  /\ UNCHANGED <<fs, start_file, pc, walk, call>>

\* The loop 'for dependency in dependencies': the recursive call.
Recurse ==
  /\ AtLoop
  /\ Top.next <= Len(Top.dependencies)
  /\ Len(stack) < MaxDepth
  /\ stack' = Append([stack EXCEPT ![Len(stack)].next = @ + 1],
                     Frame(Top.dependencies[Top.next]))
  /\ UNCHANGED <<fs, start_file, pc, walk, dependency_map, processed_files,
                 parse_calls, probes, diagnostics, call>>

\* The return of _map_dependencies_recursive after its loop.
Return ==
  /\ AtLoop
  /\ Top.next > Len(Top.dependencies)
  /\ stack' = Pop
  /\ UNCHANGED <<fs, start_file, pc, walk, dependency_map, processed_files,
                 parse_calls, probes, diagnostics, call>>

\* 'return self.dependency_map'.
Finish ==
  /\ AtWalk /\ walk = <<>>
  /\ pc' = "done"
  /\ UNCHANGED <<fs, start_file, walk, stack, dependency_map, processed_files,
                 parse_calls, probes, diagnostics, call>>

Next ==
  \/ MapFromStart
  \/ MapWholeTree
  \/ WalkSource
  \/ WalkOther
  \/ SkipProcessed
  \/ ProcessFile
  \/ Recurse
  \/ Return
  \/ Finish

Spec == Init /\ [][Next]_vars

(***************************************************************************)
(* The Classifier and the Resolver on their own: one call of               *)
(* is_external_module or of resolve_import_path on inputs drawn from the   *)
(* sets below.                                                             *)
(***************************************************************************)
\* The segments specifiers are made of: two project names, a standard
\* library name, the second segment of the table entry 'os.path', and a
\* third-party name.
Segments == {"pkg", "mod", "os", "path", "torch"}

RECURSIVE Specifiers(_)
\* The dotted names of at most n segments.
Specifiers(n) ==
  IF n = 0 THEN {}
  ELSE {<<s>> : s \in Segments}
         \cup {m \o <<DOT, s>> : m \in Specifiers(n - 1), s \in Segments}

\* The files that may exist when an import is resolved.
FileMod        == <<"mod">> \o PY
FileModInit    == <<"mod", SEP, "__init__">> \o PY
FilePkgMod     == <<"pkg", SEP, "mod">> \o PY
FilePkgModInit == <<"pkg", SEP, "mod", SEP, "__init__">> \o PY
FilePkgSubMod  == <<"pkg", SEP, "sub", SEP, "mod">> \o PY
FileOsPath     == <<"os", SEP, "path">> \o PY
ResolverFiles ==
  {FileMod, FileModInit, FilePkgMod, FilePkgModInit, FilePkgSubMod, FileOsPath}

\* The files that hold the import: at the root, one and two directories
\* down, and one with no '.' in its name.
FileC         == <<"c">> \o PY
FilePkgSubC   == <<"pkg", SEP, "sub", SEP, "c">> \o PY
FileMakefile  == <<"Makefile">>
ImportingFiles == {FileC, FilePkgC, FilePkgSubC, FileMakefile}

InitCall ==
  /\ \/ /\ fs = <<>>
        /\ call \in [op : {"is_external_module"},
                      import_name : Specifiers(MaxSegments),
                      current_file : {None},
                      result : {None}]
     \/ /\ fs \in {[f \in D |-> <<>>] : D \in SUBSET ResolverFiles}
        /\ call \in [op : {"resolve_import_path"},
                      import_name : Specifiers(MaxSegments),
                      current_file : ImportingFiles,
                      result : {None}]
  /\ pc = "call"
  /\ start_file = None
  /\ walk = <<>>
  /\ stack = <<>>
  /\ dependency_map = <<>>
  /\ processed_files = {}
  /\ parse_calls = <<>>
  /\ probes = {}
  /\ diagnostics = <<>>

CallIsExternal ==
  /\ pc = "call" /\ call.op = "is_external_module"
  /\ call' = [call EXCEPT !.result = is_external_module(call.import_name)]
  /\ pc' = "returned"
  /\ UNCHANGED <<fs, start_file, walk, stack, dependency_map, processed_files,
                 parse_calls, probes, diagnostics>>

CallResolve ==
  /\ pc = "call" /\ call.op = "resolve_import_path"
  /\ call' = [call EXCEPT !.result =
                resolve_import_path(call.import_name, call.current_file)]
  /\ pc' = "returned"
  /\ UNCHANGED <<fs, start_file, walk, stack, dependency_map, processed_files,
                 parse_calls, probes, diagnostics>>

NextCall == CallIsExternal \/ CallResolve

CallSpec == InitCall /\ [][NextCall]_vars

(***************************************************************************)
(* What the snapshot says the Dependency Map should be.                    *)
(***************************************************************************)
\* The elements of a list.
Range(s) == {s[i] : i \in 1..Len(s)}

\* The first dotted segment of the specifier m is a name of one of the
\* two tables.
FirstSegmentKnown(m) == <<m[1]>> \in std_lib_modules \cup third_party_modules

\* The files the imports of f resolve to, f itself left out.
Edges(f) ==
  LET imports == extract_imports(f)
  IN  {resolve_import_path(imports[i], f).path : i \in 1..Len(imports)}
        \ {None, f}

RECURSIVE ClosureIn(_, _)
\* The files reachable from the files in S along the edges given.
ClosureIn(edges, S) ==
  LET T == S \cup UNION {edges[f] : f \in S \cap DOMAIN edges}
  IN  IF T = S THEN S ELSE ClosureIn(edges, T)

\* The files reachable from the files in S along Edges.
Closure(S) == ClosureIn([f \in DOMAIN fs |-> Edges(f)], S)

\* The files whose names end in '.py'.
SourceFiles ==
  {f \in DOMAIN fs : Len(f) >= 2 /\ f[Len(f) - 1] = DOT /\ f[Len(f)] = "py"}

\* The key the start file is entered under: './a.py' is a.py.
StartKey == IF start_file = <<DOT, SEP>> \o FileA THEN FileA ELSE start_file

\* The files map_dependencies is to process.
EntryPoints == IF start_file = None THEN SourceFiles ELSE {StartKey}

\* The files with f in their dependency list.
Importers(f) ==
  {g \in DOMAIN dependency_map : f \in Range(dependency_map[g])}

(***************************************************************************)
(* The claims.                                                             *)
(***************************************************************************)
\* The work map_dependencies has left: the files not yet processed, each
\* weighed more than the recursive calls one file can give rise to, the
\* files os.walk has still to yield, the calls on the stack with the
\* dependencies they have still to recurse into, and the return.
WorkLeft ==
  LET frame(i) == IF stack[i].at = "entry" THEN 1
                  ELSE 1 + 2 * (Len(stack[i].dependencies) + 1 - stack[i].next)
      RECURSIVE frames(_)
      frames(n) == IF n = 0 THEN 0 ELSE frame(n) + frames(n - 1)
      files == DOMAIN fs \cup {FileMissing}
  IN  (IF pc = "new" THEN 2 * Cardinality(files) + 2
       ELSE IF pc = "running" THEN 1 ELSE 0)
      + (4 * MaxImports + 1) * Cardinality(files \ processed_files)
      + 2 * Len(walk)
      + frames(Len(stack))

\* C1: whatever the import relation, cycles included, map_dependencies
\* terminates: every step leaves less work, and until it has returned a
\* step is possible (the recursion never stands at the recursion limit
\* with a dependency still to enter).  When it has returned, every
\* resolved edge that lies on a cycle is in the map: if f imports g and f
\* can be reached back from g, then g is in the dependency list of f.
C1_CyclesTerminate ==
  /\ [][WorkLeft' < WorkLeft]_vars
  /\ [](\/ pc = "done"
        \/ AtCall
        \/ AtWalk
        \/ AtEntry
        \/ AtLoop /\ (Top.next > Len(Top.dependencies) \/ Len(stack) < MaxDepth))
  /\ [](pc = "done" =>
        LET edges == [f \in DOMAIN fs |-> Edges(f)]
        IN  \A f \in DOMAIN dependency_map \cap DOMAIN fs :
              \A g \in edges[f] :
                f \in ClosureIn(edges, {g}) => g \in Range(dependency_map[f]))

\* C1: map_dependencies has returned on a project in which a.py imports
\* b.py and b.py imports a.py, with both edges in the map.
C1_Witness ==
  /\ pc = "done"
  /\ FileB \in Edges(FileA) /\ FileA \in Edges(FileB)
  /\ {FileA, FileB} \subseteq DOMAIN dependency_map
  /\ FileB \in Range(dependency_map[FileA])
  /\ FileA \in Range(dependency_map[FileB])

\* C2: extract_imports is never called twice on a file, and when
\* map_dependencies has returned it has been called exactly once on every
\* file reachable from the entry points.
C2_ParsedOnce ==
  /\ \A f \in DOMAIN parse_calls : parse_calls[f] <= 1
  /\ pc = "done" => \A f \in Closure(EntryPoints) : ParseCount(f) = 1

\* C2: the recursion re-enters a file whose processing is still in
\* progress further down the stack and which two other files import; it
\* has been parsed once.
C2_Witness ==
  /\ stack /= <<>>
  /\ Top.at = "entry"
  /\ \E i \in 1..(Len(stack) - 1) : stack[i].file_path = Top.file_path
  /\ Cardinality(Importers(Top.file_path)) >= 2
  /\ ParseCount(Top.file_path) = 1

\* C3: no key of the Dependency Map is in its own dependency list.
C3_NoSelfLoops ==
  \A f \in DOMAIN dependency_map : f \notin Range(dependency_map[f])

\* C3: a file one of whose imports resolves to the file itself has been
\* processed.
C3_Witness ==
  \E f \in DOMAIN dependency_map :
    LET imports == extract_imports(f)
    IN  \E i \in 1..Len(imports) : resolve_import_path(imports[i], f).path = f

\* C4: no path occurs twice in a dependency list.
C4_NoDuplicates ==
  \A f \in DOMAIN dependency_map :
    \A i, j \in 1..Len(dependency_map[f]) :
      dependency_map[f][i] = dependency_map[f][j] => i = j

\* C5: when map_dependencies, called with a start file, has returned, the
\* keys of the map are the files reachable from the start file along the
\* resolved imports, the start file included.
C5_KeysAreReachable ==
  (pc = "done" /\ start_file /= None) =>
    DOMAIN dependency_map = Closure({StartKey})

\* C5: map_dependencies has returned from a start file that reaches
\* another file and leaves a source file of the project unreached.
C5_Witness ==
  /\ pc = "done" /\ start_file /= None
  /\ Cardinality(DOMAIN dependency_map) >= 2
  /\ \E f \in VaryingFiles : f \notin DOMAIN dependency_map

\* C6: when map_dependencies, called with no start file, has returned,
\* the keys of the map are the files under the root whose names end in
\* '.py'.
C6_KeysAreSourceFiles ==
  (pc = "done" /\ start_file = None) => DOMAIN dependency_map = SourceFiles

\* C6: the whole tree has been mapped: json.py, which nothing imports, is
\* a key and pkg/notes.txt, which os.walk has yielded, is none.
C6_Witness ==
  /\ pc = "done" /\ start_file = None
  /\ FileNotes \in DOMAIN fs /\ FileNotes \notin DOMAIN dependency_map
  /\ FileJson \in DOMAIN dependency_map

\* The candidates of the Resolver as the specification lists them, as
\* paths below the root: the module file, the package initializer, the
\* file named after the last segment beside the importing file, and the
\* file of that name one directory above (none when the importing file is
\* in the root).
ListedCandidates(import_name, current_file) ==
  LET segments == Split(import_name, DOT)
      module   == JoinWith(segments, SEP)
      name     == segments[Len(segments)] \o PY
      dir      == Comps(Dirname(current_file))
  IN  << module \o PY,
         module \o <<SEP, "__init__">> \o PY,
         JoinWith(Append(dir, name), SEP) >>
      \o (IF dir = <<>> THEN <<>>
          ELSE <<JoinWith(Append(SubSeq(dir, 1, Len(dir) - 1), name), SEP)>>)

\* The first of the paths that is a file of the snapshot, or None.
FirstExisting(paths) ==
  LET found == {i \in 1..Len(paths) : paths[i] \in DOMAIN fs}
  IN  IF found = {} THEN None
      ELSE paths[CHOOSE i \in found : \A j \in found : i <= j]

\* resolve_import_path has returned from a call on an internal specifier.
ResolvedInternal ==
  /\ pc = "returned"
  /\ call.op = "resolve_import_path"
  /\ ~FirstSegmentKnown(call.import_name)

\* C7: for an internal specifier resolve_import_path returns the first
\* that exists of the module file, the package initializer, the sibling
\* and the parent-directory file, and None if none of them exists.
C7_FirstCandidateWins ==
  ResolvedInternal =>
    call.result.path =
      FirstExisting(ListedCandidates(call.import_name, call.current_file))

\* C8: when the module file, the package initializer and the sibling do
\* not exist and the file named after the last segment exists one
\* directory above the importing file's directory, resolve_import_path
\* returns that file.
C8_ParentDirectoryCandidate ==
  LET listed == ListedCandidates(call.import_name, call.current_file)
  IN  (/\ ResolvedInternal
       /\ Len(listed) = 4
       /\ \A i \in 1..3 : listed[i] \notin DOMAIN fs
       /\ listed[4] \in DOMAIN fs)
      => call.result.path = listed[4]

\* C9: a specifier whose first segment is in one of the two tables is
\* never tested for existence, never reported as unresolved, and adds no
\* edge: the dependency list written for a file is what the other imports
\* of the file give.
C9_ExternalsSkipped ==
  /\ \A p \in probes : ~FirstSegmentKnown(p.import_name)
  /\ \A d \in DOMAIN diagnostics : ~FirstSegmentKnown(d.import_name)
  /\ (AtLoop /\ Top.next = 1) =>
       dependency_map[Top.file_path] =
         dependencies_of(
           resolve_all(SelectSeq(extract_imports(Top.file_path),
                                 LAMBDA m : ~FirstSegmentKnown(m)),
                       Top.file_path),
           Top.file_path)

\* C9: a file has been processed that imports a module of the tables
\* whose module file exists in the project.
C9_Witness ==
  \E f \in DOMAIN dependency_map :
    LET imports == extract_imports(f)
    IN  \E i \in 1..Len(imports) :
          /\ FirstSegmentKnown(imports[i])
          /\ Replace(imports[i], DOT, SEP) \o PY \in DOMAIN fs

\* C10: the answer of is_external_module is true exactly when the first
\* segment of the specifier is a name of one of the two tables, and every
\* specifier with the same first segment gets the same answer.
C10_FirstSegmentDecides ==
  (pc = "returned" /\ call.op = "is_external_module") =>
    /\ call.result = FirstSegmentKnown(call.import_name)
    /\ \A m \in Specifiers(MaxSegments) :
         m[1] = call.import_name[1] => is_external_module(m) = call.result

\* C10: is_external_module has answered for 'path.os', whose first segment
\* is in no table although 'os.path' is an entry of one: the answer is
\* false, while 'os.path' itself is external by its first segment.
C10_Witness ==
  /\ pc = "returned" /\ call.op = "is_external_module"
  /\ call.import_name = <<"path", DOT, "os">>
  /\ call.result = FALSE
  /\ <<"os", DOT, "path">> \in std_lib_modules
  /\ is_external_module(<<"os", DOT, "path">>)

(***************************************************************************)
(* The Builder on projects with and without a fault: a source file that    *)
(* holds text that is not Python, a project root that does not exist.      *)
(***************************************************************************)
\* A root directory that does not exist: nothing is below it.
NoRoot == <<>>

\* The snapshots in which one source file cannot be parsed: text that is
\* not Python stands before or after its import statements.
FaultSnapshots(n) ==
  UNION { { [h EXCEPT ![f] = <<BadSyntax>> \o h[f]],
            [h EXCEPT ![f] = h[f] \o <<BadSyntax>>] } :
          h \in Snapshots(n), f \in VaryingFiles }

InitFault ==
  /\ \/ /\ start_file \in StartFiles \ {None}
        /\ fs \in FaultSnapshots(MaxFaultImports)
                  \cup Snapshots(MaxFaultImports) \cup {NoRoot}
     \/ /\ start_file = None
        /\ fs \in FaultSnapshots(MaxFaultTreeImports)
                  \cup Snapshots(MaxFaultTreeImports) \cup {NoRoot}
  /\ pc = "new"
  /\ walk = <<>>
  /\ stack = <<>>
  /\ dependency_map = <<>>
  /\ processed_files = {}
  /\ parse_calls = <<>>
  /\ probes = {}
  /\ diagnostics = <<>>
  /\ call = <<>>

FaultSpec == InitFault /\ [][Next]_vars

\* The file f cannot be read or cannot be parsed.
Unparseable(f) ==
  f \notin DOMAIN fs \/ \E i \in 1..Len(fs[f]) : fs[f][i].kind = "bad"

\* The dependency list the import statements of the file g stand for,
\* whatever the other files hold: the files they resolve to in the order
\* of the statements, g itself left out.
ContentDependencies(g) ==
  LET imports == walk_imports(fs[g])
      paths   == [i \in 1..Len(imports) |->
                    resolve_import_path(imports[i], g).path]
  IN  SelectSeq(paths, LAMBDA p : p /= None /\ p /= g)

C13_InvalidRootRejected ==
  ~Exists(root_dir) => (pc /= "done" /\ parse_calls = <<>>)

\* The specifier m, imported by the file f, is internal and no file is at
\* any of the places the Resolver is to look in.
Unresolvable(m, f) ==
  /\ ~FirstSegmentKnown(m)
  /\ \A p \in Range(ListedCandidates(m, f)) : p \notin DOMAIN fs

\* The files to look at: the file whose dependency list has just been
\* stored, and every key once map_dependencies has returned.
JustStored ==
  IF pc = "done" THEN DOMAIN dependency_map
  ELSE IF AtLoop /\ Top.next = 1 THEN {Top.file_path}
  ELSE {}

\* C12: for every file just processed (and again for every key when
\* map_dependencies has returned) and every internal specifier of it that
\* matches no candidate, resolve_import_path gives None, the diagnostic
\* naming the specifier and the file has been printed once for each
\* occurrence of the specifier, the dependency list of the file is the
\* list its other specifiers resolve to, in their order, and when
\* map_dependencies has returned every file of that list has been
\* processed in its turn.
C12_UnresolvedImportSkipped ==
  \A f \in JustStored :
    LET imports == extract_imports(f)
        others  == SelectSeq(imports, LAMBDA m : ~Unresolvable(m, f))
        paths   == [i \in 1..Len(others) |->
                      resolve_import_path(others[i], f).path]
    IN  /\ \A i \in 1..Len(imports) :
             Unresolvable(imports[i], f) =>
               /\ resolve_import_path(imports[i], f).path = None
               /\ Printed([import_name |-> imports[i], current_file |-> f])
                    = Cardinality({j \in 1..Len(imports) : imports[j] = imports[i]})
        /\ (\E i \in 1..Len(imports) : Unresolvable(imports[i], f)) =>
             /\ dependency_map[f] = SelectSeq(paths, LAMBDA p : p /= None /\ p /= f)
             /\ pc = "done" => Range(dependency_map[f]) \subseteq DOMAIN dependency_map

\* C12: map_dependencies has returned; a file holds a specifier that
\* matches no candidate and, after it, one that resolves to another file,
\* which is in its dependency list and has been processed.
C12_Witness ==
  /\ pc = "done"
  /\ \E f \in DOMAIN dependency_map :
       LET imports == extract_imports(f)
       IN  \E i, j \in 1..Len(imports) :
             /\ i < j
             /\ Unresolvable(imports[i], f)
             /\ Printed([import_name |-> imports[i], current_file |-> f]) = 1
             /\ resolve_import_path(imports[j], f).path \in Range(dependency_map[f])

(***************************************************************************)
(* The order of strings and the persisted document.                        *)
(***************************************************************************)
\* The code points of the characters of each token.
Spell ==
  (DOT :> <<46>>) @@ (SEP :> <<47>>)
  @@ ("a" :> <<97>>) @@ ("b" :> <<98>>) @@ ("c" :> <<99>>) @@ ("d" :> <<100>>)
  @@ ("e" :> <<101>>)
  @@ ("x" :> <<120>>) @@ ("py" :> <<112, 121>>)
  @@ ("pkg" :> <<112, 107, 103>>) @@ ("json" :> <<106, 115, 111, 110>>)
  @@ ("notes" :> <<110, 111, 116, 101, 115>>) @@ ("txt" :> <<116, 120, 116>>)
  @@ ("sub" :> <<115, 117, 98>>) @@ ("z" :> <<122>>)
  @@ ("main" :> <<109, 97, 105, 110>>) @@ ("util" :> <<117, 116, 105, 108>>)
  @@ ("orphan" :> <<111, 114, 112, 104, 97, 110>>)
  @@ ("y" :> <<121>>) @@ ("app" :> <<97, 112, 112>>)

RECURSIVE Text(_)
\* The code points of a string given as its tokens.
Text(s) == IF s = <<>> THEN <<>> ELSE Spell[Head(s)] \o Text(Tail(s))

RECURSIVE SeqLess(_, _)
\* Lexicographic order of two sequences of code points.
SeqLess(u, v) ==
  IF v = <<>> THEN FALSE
  ELSE IF u = <<>> THEN TRUE
  ELSE IF Head(u) /= Head(v) THEN Head(u) < Head(v)
  ELSE SeqLess(Tail(u), Tail(v))

\* s < t for two Python strings.
StrLess(s, t) == SeqLess(Text(s), Text(t))

RECURSIVE sorted(_)
\* sorted(S) for a set of strings.
sorted(S) ==
  IF S = {} THEN <<>>
  ELSE LET least == CHOOSE x \in S : \A y \in S \ {x} : StrLess(x, y)
       IN  <<least>> \o sorted(S \ {least})

\* json.dump(dependency_map, f, indent=2, sort_keys=True): the members of
\* the document in the order they are written, each a key with its array
\* as the map holds it.
json_dump(map) ==
  LET keys == sorted(DOMAIN map)
  IN  [i \in 1..Len(keys) |-> [key |-> keys[i], value |-> map[keys[i]]]]

(***************************************************************************)
(* Sessions: a mapper is constructed, map_dependencies is called and the   *)
(* map is saved; then either the same is done again with a new mapper, or  *)
(* map_dependencies is called again on the same mapper, possibly after     *)
(* a.py has lost its import statements.                                    *)
(***************************************************************************)
\* What 'call' holds in a session: the number of the run, whether the
\* run is the first on its mapper, the map and the document of the run
\* before (when that one was the first on a mapper, too), and the document
\* of this run once it is saved.
Session(run, fresh, earlier) ==
  [run |-> run, fresh |-> fresh, earlier |-> earlier, document |-> <<>>]

InitSession ==
  /\ fs \in Snapshots(MaxSessionImports)
  /\ start_file \in StartFiles
  /\ pc = "new"
  /\ walk = <<>>
  /\ stack = <<>>
  /\ dependency_map = <<>>
  /\ processed_files = {}
  /\ parse_calls = <<>>
  /\ probes = {}
  /\ diagnostics = <<>>
  /\ call = Session(1, TRUE, <<>>)

\* The map is saved to the JSON file.
Save ==
  /\ pc = "done"
  /\ pc' = "saved"
  /\ call' = [call EXCEPT !.document = json_dump(dependency_map)]
  /\ UNCHANGED <<fs, start_file, walk, stack, dependency_map, processed_files,
                 parse_calls, probes, diagnostics>>

\* The program is run again on the unchanged project: a new
\* DependencyMapper, the same root and start file.
NewMapper ==
  /\ pc = "saved" /\ call.fresh /\ call.run < MaxRuns
  /\ pc' = "new"
  /\ dependency_map' = <<>>
  /\ processed_files' = {}
  /\ parse_calls' = <<>>
  /\ probes' = {}
  /\ diagnostics' = <<>>
  /\ call' = Session(call.run + 1, TRUE,
                     <<[map |-> dependency_map, document |-> call.document]>>)
  /\ UNCHANGED <<fs, start_file, walk, stack>>

\* map_dependencies is called again on the same DependencyMapper, with
\* any start file; a.py may have lost its import statements meanwhile.
MapAgain ==
  /\ pc = "saved" /\ call.run < MaxRuns
  /\ pc' = "new"
  /\ start_file' \in StartFiles
  /\ fs' \in {fs, [fs EXCEPT ![FileA] = <<>>]}
  /\ call' = Session(call.run + 1, FALSE, <<>>)
  /\ UNCHANGED <<walk, stack, dependency_map, processed_files, parse_calls,
                 probes, diagnostics>>

NextSession ==
  \/ Next
  \/ Save
  \/ NewMapper
  \/ MapAgain

SessionSpec == InitSession /\ [][NextSession]_vars

\* C14: when the program has run twice on the same project, each time
\* with a new mapper, the second map is the first map, key for key and
\* list for list in the same order, and the second document is the first.
C14_RunsAgree ==
  (pc = "saved" /\ call.fresh /\ call.earlier /= <<>>) =>
    /\ dependency_map = call.earlier[1].map
    /\ call.document = call.earlier[1].document

\* C14: the second of two whole-tree runs on new mappers is saved; a file
\* of the project has two dependencies.
C14_Witness ==
  /\ pc = "saved" /\ call.fresh /\ call.earlier /= <<>>
  /\ start_file = None
  /\ \E i \in 1..Len(call.document) : Len(call.document[i].value) >= 2

\* C15: no step of a mapper removes a key of dependency_map or changes
\* the list of a key; only the construction of a new mapper starts from
\* an empty map.
C15_EntriesAreFinal ==
  [][ \/ (call'.run /= call.run /\ call'.fresh)
      \/ \A f \in DOMAIN dependency_map :
           /\ f \in DOMAIN dependency_map'
           /\ dependency_map'[f] = dependency_map[f] ]_vars

\* C15: map_dependencies has been called a second time on a mapper, after
\* a.py lost its import statements, and has reached a.py again: its list
\* is the one written in the first call.
C15_Witness ==
  /\ pc = "saved" /\ ~call.fresh
  /\ fs[FileA] = <<>>
  /\ FileA \in DOMAIN dependency_map /\ dependency_map[FileA] /= <<>>
  /\ start_file \in {None, <<DOT, SEP>> \o FileA}

\* C16: in the saved document the keys are in lexicographic order and
\* every dependency array is in lexicographic order.
C16_DocumentSorted ==
  pc = "saved" =>
    /\ \A i, j \in 1..Len(call.document) :
         i < j => StrLess(call.document[i].key, call.document[j].key)
    /\ \A i \in 1..Len(call.document) :
         LET value == call.document[i].value
         IN  \A j, k \in 1..Len(value) :
               j < k => ~StrLess(value[k], value[j])

(***************************************************************************)
(* Graph Analyzer.                                                         *)
(*                                                                         *)
(* A dict is a function together with the order of its keys; a graph is    *)
(* [order |-> the nodes in the order they were added, adj |-> the set of   *)
(* neighbours of each node].                                               *)
(***************************************************************************)
\* 'if n not in graph: graph[n] = set()'.
AddNode(graph, n) ==
  IF n \in DOMAIN graph.adj THEN graph
  ELSE [order |-> Append(graph.order, n), adj |-> graph.adj @@ (n :> {})]

\* A graph that gets the edge from the file to its dependency only.
AddDepOneWay(graph, file, dep) ==
  LET g == AddNode(graph, dep)
  IN  [g EXCEPT !.adj[file] = @ \cup {dep}]

\* The body of 'for dep in deps': the edge and the reverse edge.
AddDep(graph, file, dep) ==
  LET g == AddNode([graph EXCEPT !.adj[file] = @ \cup {dep}], dep)
  IN  [g EXCEPT !.adj[dep] = @ \cup {file}]

RECURSIVE AddDeps(_, _, _)
\* 'for dep in deps'.
AddDeps(graph, file, deps) ==
  IF deps = <<>> THEN graph
  ELSE AddDeps(AddDep(graph, file, Head(deps)), file, Tail(deps))

RECURSIVE build_graph(_, _, _)
\* 'for file, deps in self.dependency_map.items()', items being the keys
\* still to come, in the order of the dict.
build_graph(map, items, graph) ==
  IF items = <<>> THEN graph
  ELSE build_graph(map, Tail(items),
                   AddDeps(AddNode(graph, Head(items)), Head(items),
                           map[Head(items)]))

RECURSIVE dfs(_, _, _, _)
RECURSIVE dfs_neighbors(_, _, _, _)
\* _dfs(node, graph, visited, component): the set visited afterwards; the
\* component is what it gained.  iteration is the order in which a set of
\* nodes is iterated over.
dfs(node, adj, visited, iteration) ==
  dfs_neighbors(SelectSeq(iteration, LAMBDA n : n \in adj[node]),
                adj, visited \cup {node}, iteration)

\* 'for neighbor in graph.get(node, set())'.
dfs_neighbors(neighbors, adj, visited, iteration) ==
  IF neighbors = <<>> THEN visited
  ELSE IF Head(neighbors) \in visited
    THEN dfs_neighbors(Tail(neighbors), adj, visited, iteration)
  ELSE dfs_neighbors(Tail(neighbors), adj,
                     dfs(Head(neighbors), adj, visited, iteration), iteration)

RECURSIVE common_dirs(_)
\* The keys of the dict common_dirs in the order they enter it, for the
\* files in the order 'for file in files' meets them: the directory of
\* every file that has one ('if dir_name').
common_dirs(files) ==
  IF files = <<>> THEN <<>>
  ELSE
    LET rest     == common_dirs(SubSeq(files, 1, Len(files) - 1))
        dir_name == Dirname(files[Len(files)])
    IN  IF dir_name = <<>> \/ dir_name \in Range(rest) THEN rest
        ELSE Append(rest, dir_name)

\* common_dirs[dir_name] after the loop.
dir_count(files, dir_name) ==
  Cardinality({f \in files : Dirname(f) = dir_name})

\* max(common_dirs.items(), key=lambda x: x[1]): the first of the keys
\* that has the largest count.
most_common_dir(files, dirs) ==
  dirs[CHOOSE i \in 1..Len(dirs) :
         /\ \A j \in 1..Len(dirs) :
              dir_count(files, dirs[j]) <= dir_count(files, dirs[i])
         /\ \A j \in 1..(i - 1) :
              dir_count(files, dirs[j]) < dir_count(files, dirs[i])]

\* [os.path.basename(f) for f in sorted(files)]
file_names(files) ==
  LET paths == sorted(files)
  IN  [i \in 1..Len(paths) |-> Basename(paths[i])]

\* _generate_system_name(files), the set files being iterated over in
\* the order iteration.  "System: ", ", " and "..." are one token each.
generate_system_name(files, iteration) ==
  LET dirs  == common_dirs(SelectSeq(iteration, LAMBDA f : f \in files))
      names == file_names(files)
  IN  IF /\ dirs /= <<>>
         /\ 2 * dir_count(files, most_common_dir(files, dirs))
              >= Cardinality(files)
        THEN <<"System: ">> \o most_common_dir(files, dirs)
      ELSE IF Len(names) <= 3
        THEN <<"System: ">> \o JoinWith(names, ", ")
      ELSE <<"System: ">> \o JoinWith(SubSeq(names, 1, 3), ", ") \o <<"...">>

RECURSIVE find_systems(_, _, _, _)
\* 'for node in graph': the systems in the order they are found.
find_systems(nodes, adj, visited, iteration) ==
  IF nodes = <<>> THEN <<>>
  ELSE IF Head(nodes) \in visited
    THEN find_systems(Tail(nodes), adj, visited, iteration)
  ELSE
    LET after        == dfs(Head(nodes), adj, visited, iteration)
        system_files == after \ visited
    IN  (IF Cardinality(system_files) >= 2
           THEN <<[name |-> generate_system_name(system_files, iteration),
                   files |-> sorted(system_files),
                   file_count |-> Cardinality(system_files)]>>
         ELSE <<>>)
        \o find_systems(Tail(nodes), adj, after, iteration)

\* Systems left in the order they were found.
unsorted(systems) == systems

RECURSIVE sort_by_size(_)
\* systems.sort(key=lambda x: x["file_count"], reverse=True): a stable
\* sort, systems of one size staying in the order they were found.
sort_by_size(systems) ==
  IF systems = <<>> THEN <<>>
  ELSE
    LET last == systems[Len(systems)]
        rest == sort_by_size(SubSeq(systems, 1, Len(systems) - 1))
        keep == SelectSeq(rest, LAMBDA x : x.file_count >= last.file_count)
        move == SelectSeq(rest, LAMBDA x : x.file_count < last.file_count)
    IN  keep \o <<last>> \o move

\* identify_systems, for a dict with its keys in the order items and sets
\* iterated over in the order iteration.
identify_systems(map, items, iteration) ==
  IF items = <<>> THEN <<>>
  ELSE
    LET graph   == build_graph(map, items, [order |-> <<>>, adj |-> <<>>])
        systems == sort_by_size(find_systems(graph.order, graph.adj, {}, iteration))
    IN  [i \in 1..Len(systems) |->
           [name       |-> systems[i].name,
            files      |-> systems[i].files,
            file_count |-> systems[i].file_count,
            id         |-> i]]

RECURSIVE importers_of(_, _, _)
\* The appends to reverse_dependency_map[dependency]: file_path once for
\* each time the dependency stands in its list, the files in the order of
\* the dict.
importers_of(map, items, dependency) ==
  IF items = <<>> THEN <<>>
  ELSE [i \in 1..Cardinality({k \in 1..Len(map[Head(items)]) :
                                   map[Head(items)][k] = dependency}) |->
             Head(items)]
       \o importers_of(map, Tail(items), dependency)

\* _build_reverse_dependency_map: an entry for every key, filled with the
\* files that have the key in their list.
build_reverse_dependency_map(map, items) ==
  [file_path \in DOMAIN map |-> importers_of(map, items, file_path)]

(***************************************************************************)
(* The Analyzer on its own: one call of identify_systems or of             *)
(* _build_reverse_dependency_map on a Dependency Map as the Builder leaves *)
(* it: every dependency is a key, no file depends on itself.               *)
(***************************************************************************)
FileD == <<"d">> \o PY
FileE == <<"e">> \o PY
AnalyzerFiles == <<FileA, FileB, FileC, FileD, FileE>>

\* The key sets of the maps: none of the files, the first, the first
\* two, and so on to all of them.
KeySets == {Range(SubSeq(AnalyzerFiles, 1, n)) : n \in 0..Len(AnalyzerFiles)}

RECURSIVE Maps(_, _, _)
\* The maps with the keys D, the dependencies taken from K, n of them at
\* most in all.
Maps(D, K, n) ==
  IF D = {} THEN {<<>>}
  ELSE LET f == CHOOSE f \in D : TRUE
       IN  UNION { { (f :> s) @@ rest : rest \in Maps(D \ {f}, K, n - Len(s)) } :
                   s \in SeqsUpTo(K \ {f}, n) }

\* The sequence s backwards.
Reverse(s) == [i \in 1..Len(s) |-> s[Len(s) + 1 - i]]

\* The orders a dict or a set is taken to have: ascending and descending.
Orders(S) == {sorted(S), Reverse(sorted(S))}

InitAnalyzer ==
  /\ dependency_map \in UNION {Maps(K, K, MaxEdges) : K \in KeySets}
  /\ call \in [op     : {"identify_systems", "_build_reverse_dependency_map"},
               items  : Orders(DOMAIN dependency_map),
               result : {None}]
  /\ pc = "call"
  /\ fs = <<>>
  /\ start_file = None
  /\ walk = <<>>
  /\ stack = <<>>
  /\ processed_files = DOMAIN dependency_map
  /\ parse_calls = <<>>
  /\ probes = {}
  /\ diagnostics = <<>>

CallIdentifySystems ==
  /\ pc = "call" /\ call.op = "identify_systems"
  /\ \E iteration \in Orders(DOMAIN dependency_map) :
       call' = [call EXCEPT !.result =
                  identify_systems(dependency_map, call.items, iteration)]
  /\ pc' = "returned"
  /\ UNCHANGED <<fs, start_file, walk, stack, dependency_map, processed_files,
                 parse_calls, probes, diagnostics>>

CallBuildReverse ==
  /\ pc = "call" /\ call.op = "_build_reverse_dependency_map"
  /\ call' = [call EXCEPT !.result =
                build_reverse_dependency_map(dependency_map, call.items)]
  /\ pc' = "returned"
  /\ UNCHANGED <<fs, start_file, walk, stack, dependency_map, processed_files,
                 parse_calls, probes, diagnostics>>

NextAnalyzer == CallIdentifySystems \/ CallBuildReverse

AnalyzerSpec == InitAnalyzer /\ [][NextAnalyzer]_vars

\* A call of the named function of the Analyzer has returned.
Returned(op) == pc = "returned" /\ call.op = op

\* The files of a map: its keys and the files in its lists.
FilesOf(map) == DOMAIN map \cup UNION {Range(map[f]) : f \in DOMAIN map}

\* The files joined to x by an edge of the map, in either direction.
Linked(map, x) ==
  {y \in FilesOf(map) :
     \/ x \in DOMAIN map /\ y \in Range(map[x])
     \/ y \in DOMAIN map /\ x \in Range(map[y])}

\* The sets of files joined by undirected paths, each with two files at
\* least.
Components(map) ==
  LET linked == [x \in FilesOf(map) |-> Linked(map, x)]
  IN  {c \in {ClosureIn(linked, {x}) : x \in FilesOf(map)} : Cardinality(c) >= 2}

\* C17: in the reverse map every file of the Dependency Map has an entry,
\* f is among the importers of d exactly if d is in the list of f, and no
\* importer is listed twice.
C17_ReverseMapExact ==
  Returned("_build_reverse_dependency_map") =>
    \A d \in FilesOf(dependency_map) :
      /\ d \in DOMAIN call.result
      /\ \A f \in DOMAIN dependency_map :
           f \in Range(call.result[d]) <=> d \in Range(dependency_map[f])
      /\ \A i, j \in 1..Len(call.result[d]) :
           call.result[d][i] = call.result[d][j] => i = j

\* C18: the systems identify_systems returns are the connected components
\* of the undirected graph of the map that have two files at least, each
\* of them once, with its files listed once each.
C18_SystemsAreComponents ==
  Returned("identify_systems") =>
    /\ {Range(call.result[i].files) : i \in 1..Len(call.result)}
         = Components(dependency_map)
    /\ Len(call.result) = Cardinality(Components(dependency_map))
    /\ \A i \in 1..Len(call.result) :
         Len(call.result[i].files) = Cardinality(Range(call.result[i].files))

\* C18: identify_systems has returned two systems for a map that has a
\* file without any edge, which is in neither, and a file that is only
\* depended on.
C18_Witness ==
  /\ Returned("identify_systems")
  /\ Len(call.result) = 2
  /\ \E f \in DOMAIN dependency_map :
       \A i \in 1..Len(call.result) : f \notin Range(call.result[i].files)
  /\ \E f \in DOMAIN dependency_map :
       dependency_map[f] = <<>> /\ Linked(dependency_map, f) /= {}

\* C19: the systems are in the order of their sizes, larger first, the
\* i-th has the id i, and file_count is the length of the list of files.
C19_SystemsOrdered ==
  Returned("identify_systems") =>
    /\ \A i, j \in 1..Len(call.result) :
         i < j => call.result[i].file_count >= call.result[j].file_count
    /\ \A i \in 1..Len(call.result) :
         /\ call.result[i].id = i
         /\ call.result[i].file_count = Len(call.result[i].files)

\* C19: identify_systems has returned a system of three files before one
\* of two files, and the first key of the dict is in the second.
C19_Witness ==
  /\ Returned("identify_systems")
  /\ Len(call.result) = 2
  /\ call.result[1].file_count = 3 /\ call.result[2].file_count = 2
  /\ call.items[1] \in Range(call.result[2].files)

\* C20: whatever the order of the keys of the dict and the order sets are
\* iterated in, identify_systems returns the same list: the same systems
\* in the same order with the same ids.
C20_OrderIndependent ==
  Returned("identify_systems") =>
    \A items \in Orders(DOMAIN dependency_map) :
      \A iteration \in Orders(DOMAIN dependency_map) :
        identify_systems(dependency_map, items, iteration) = call.result

(***************************************************************************)
(* The naming of systems on its own: one call of _generate_system_name on  *)
(* the files of a system, which lie in the project root and in two         *)
(* directories.                                                            *)
(***************************************************************************)
\* The number of files of a system that is given a name.
MaxMembers == 5

FilePkgZ == <<"pkg", SEP, "z">> \o PY
FileSubA == <<"sub", SEP, "a">> \o PY
FileSubD == <<"sub", SEP, "d">> \o PY
NamingFiles == {FileA, FileB, FileMissing, FilePkgC, FilePkgZ, FileSubA, FileSubD}

\* The sets of files identify_systems can pass: two files at least.
SystemFiles ==
  {F \in SUBSET NamingFiles : Cardinality(F) >= 2 /\ Cardinality(F) <= MaxMembers}

InitNaming ==
  /\ call \in UNION {[op        : {"_generate_system_name"},
                      files     : {F},
                      iteration : Orders(F),
                      result    : {None}] : F \in SystemFiles}
  /\ pc = "call"
  /\ dependency_map = <<>>
  /\ fs = <<>>
  /\ start_file = None
  /\ walk = <<>>
  /\ stack = <<>>
  /\ processed_files = {}
  /\ parse_calls = <<>>
  /\ probes = {}
  /\ diagnostics = <<>>

CallGenerateSystemName ==
  /\ pc = "call" /\ call.op = "_generate_system_name"
  /\ call' = [call EXCEPT !.result =
                generate_system_name(call.files, call.iteration)]
  /\ pc' = "returned"
  /\ UNCHANGED <<fs, start_file, walk, stack, dependency_map, processed_files,
                 parse_calls, probes, diagnostics>>

NamingSpec == InitNaming /\ [][CallGenerateSystemName]_vars

\* The directories of the files, the project root (the empty path) being
\* the directory of the files that lie in it.
DirsOf(files) == {Dirname(f) : f \in files}

\* The directory holds at least half of the files.
HoldsHalf(files, dir_name) ==
  2 * dir_count(files, dir_name) >= Cardinality(files)

\* C21: if a directory, which may be the project root, holds at least
\* half of the files of a system, the name of the system is "System: "
\* followed by such a directory.
C21_NamedAfterDirectory ==
  Returned("_generate_system_name") =>
    ((\E d \in DirsOf(call.files) : HoldsHalf(call.files, d))
       => \E d \in DirsOf(call.files) :
            /\ HoldsHalf(call.files, d)
            /\ call.result = <<"System: ">> \o d)

\* The files are in the order of their filenames.
InFilenameOrder(paths) ==
  \A i, j \in 1..Len(paths) :
    i < j => ~StrLess(Basename(paths[j]), Basename(paths[i]))

\* C22: if no directory holds at least half of the files of a system,
\* the name is "System: " followed by the first three filenames of the
\* system in the sorted order of the filenames, and it ends with "..."
\* exactly if the system has more than three files.
C22_NamedAfterFiles ==
  Returned("_generate_system_name") =>
    ((\A d \in DirsOf(call.files) : ~HoldsHalf(call.files, d))
       => \E paths \in Perms(call.files) :
            /\ InFilenameOrder(paths)
            /\ LET names == [i \in 1..Len(paths) |-> Basename(paths[i])]
                    first == SubSeq(names, 1, IF Len(names) <= 3 THEN Len(names) ELSE 3)
               IN  call.result =
                     <<"System: ">> \o JoinWith(first, ", ")
                       \o (IF Len(names) > 3 THEN <<"...">> ELSE <<>>))

(***************************************************************************)
(* Unused files.                                                           *)
(*                                                                         *)
(* Beside its import statements a file can hold the block                  *)
(* 'if __name__ == "__main__": main()' ([kind |-> "guard"]), a line that   *)
(* mentions __name__ and __main__ without testing anything                 *)
(* ([kind |-> "mention"]) and a conditional expression                     *)
(* ([kind |-> "conditional"]).  The Parser passes over the three.  The     *)
(* text of a file is the words of its statements, one token a word.        *)
(***************************************************************************)
Guard       == [kind |-> "guard", names |-> <<>>, module |-> None]
Mention     == [kind |-> "mention", names |-> <<>>, module |-> None]
Conditional == [kind |-> "conditional", names |-> <<>>, module |-> None]

\* The text of a statement.
source(stmt) ==
  IF stmt.kind = "import"
    THEN <<"import", " ">> \o JoinWith(stmt.names, ", ") \o <<"\n">>
  ELSE IF stmt.kind = "from"
    THEN <<"from", " ">> \o (IF stmt.module = None THEN <<DOT>> ELSE stmt.module)
           \o <<" ", "import", " ", "x", "\n">>
  ELSE IF stmt.kind = "guard"
    THEN <<"if", " ", "__name__", " == ", "\"", "__main__", "\"", ":", " ",
           "main", "()", "\n">>
  ELSE IF stmt.kind = "mention"
    THEN <<"log", "(", "__name__", ")", "  # ", "not", " ", "__main__", "\n">>
  ELSE IF stmt.kind = "conditional"
    THEN <<"x", " = ", "1", " ", "if", " ", "y", " ", "else", " ", "2", "\n">>
  ELSE <<"import", " ", "\n">>

RECURSIVE read(_)
\* f.read(): the text of a file that has the statements stmts.
read(stmts) ==
  IF stmts = <<>> THEN <<>> ELSE source(Head(stmts)) \o read(Tail(stmts))

\* reverse_map of identify_unused_files: for every key and for every
\* dependency, the files that list it, once for each time they do.
reverse_map(map, items) ==
  [dep \in FilesOf(map) |-> importers_of(map, items, dep)]

\* 'for file_path in self.dependency_map: if not
\* reverse_map.get(file_path, [])'.
not_imported(map, items) ==
  SelectSeq(items, LAMBDA file_path : reverse_map(map, items)[file_path] = <<>>)

\* The names that make a file an entry point.
entry_point_names ==
  { <<"main">> \o PY, <<"__main__">> \o PY, <<"app">> \o PY,
    <<"run">> \o PY, <<"server">> \o PY }

\* A scan that takes a file it cannot read for a script, too.
unreadable_is_script(file_path) ==
  LET abs_path == get_absolute_path(file_path)
  IN  IsFile(abs_path) =>
        LET content == read(fs[RelPath(abs_path, root_dir)])
        IN  /\ Contains(content, "__name__")
            /\ Contains(content, "__main__")
            /\ Contains(content, "if")

\* The try block: the file can be opened and read, and the three words
\* are in its content; an exception leaves the file in the list.
has_main_block(file_path) ==
  LET abs_path == get_absolute_path(file_path)
  IN  /\ IsFile(abs_path)
      /\ LET content == read(fs[RelPath(abs_path, root_dir)])
         IN  /\ Contains(content, "__name__")
             /\ Contains(content, "__main__")
             /\ Contains(content, "if")

\* identify_unused_files, for a dict with its keys in the order items.
identify_unused_files(map, items) ==
  IF items = <<>> THEN <<>>
  ELSE
    LET unused_files ==
          SelectSeq(not_imported(map, items),
                    LAMBDA file_path :
                      /\ Basename(file_path) \notin entry_point_names
                      /\ ~has_main_block(file_path))
    IN  sorted(Range(unused_files))

(***************************************************************************)
(* identify_unused_files on its own: one call on a Dependency Map over     *)
(* x.py, y.py and pkg/app.py, each of which is missing or has one of a     *)
(* few contents.                                                           *)
(***************************************************************************)
\* The total number of dependencies in the Dependency Map.
MaxUnusedEdges == 2

FileY       == <<"y">> \o PY
FilePkgApp  == <<"pkg", SEP, "app">> \o PY
UnusedFiles == {FileMissing, FileY, FilePkgApp}

\* The contents of a file that is scanned.
ScannedContents ==
  { <<>>, <<Guard>>, <<Import(<<SpecA>>), Guard>>, <<Mention, Conditional>>,
    <<Conditional>>, <<Mention>> }

InitUnused ==
  /\ dependency_map \in UNION {Maps(K, K, MaxUnusedEdges) : K \in SUBSET UnusedFiles}
  /\ fs \in UNION {[D -> ScannedContents] : D \in SUBSET UnusedFiles}
  /\ call \in [op     : {"identify_unused_files"},
               items  : Orders(DOMAIN dependency_map),
               result : {None}]
  /\ pc = "call"
  /\ start_file = None
  /\ walk = <<>>
  /\ stack = <<>>
  /\ processed_files = DOMAIN dependency_map
  /\ parse_calls = <<>>
  /\ probes = {}
  /\ diagnostics = <<>>

CallIdentifyUnusedFiles ==
  /\ pc = "call" /\ call.op = "identify_unused_files"
  /\ call' = [call EXCEPT !.result =
                identify_unused_files(dependency_map, call.items)]
  /\ pc' = "returned"
  /\ UNCHANGED <<fs, start_file, walk, stack, dependency_map, processed_files,
                 parse_calls, probes, diagnostics>>

UnusedSpec == InitUnused /\ [][CallIdentifyUnusedFiles]_vars

\* No key of the map lists f as a dependency.
NotListed(f) == \A g \in DOMAIN dependency_map : f \notin Range(dependency_map[g])

\* The base name of f is one of the entry-point names.
EntryPointName(f) ==
  Basename(f) \in { <<"main">> \o PY, <<"__main__">> \o PY, <<"app">> \o PY,
                    <<"run">> \o PY, <<"server">> \o PY }

\* The file f is there and its content has the run-as-script guard.
ContainsGuard(f) ==
  f \in DOMAIN fs /\ \E i \in 1..Len(fs[f]) : fs[f][i].kind = "guard"

\* The file f is there and the word is in its content.
HasWord(f, word) ==
  f \in DOMAIN fs /\ \E i \in 1..Len(fs[f]) : Contains(source(fs[f][i]), word)

\* The result lists, in sorted order and once each, the keys in the set.
ListsSorted(result, files) ==
  /\ Range(result) = files
  /\ \A i, j \in 1..Len(result) : i < j => StrLess(result[i], result[j])

\* C23 as stated: identify_unused_files returns, sorted, exactly the keys
\* that no key lists, whose base name is no entry-point name and whose
\* content does not contain the run-as-script guard.
C23_UnusedExactly ==
  Returned("identify_unused_files") =>
    ListsSorted(call.result,
                {f \in DOMAIN dependency_map :
                   NotListed(f) /\ ~EntryPointName(f) /\ ~ContainsGuard(f)})

\* C23 with the scan as the code makes it: identify_unused_files returns,
\* sorted, exactly the keys that no key lists, whose base name is no
\* entry-point name and whose content cannot be read or lacks one of the
\* words __name__, __main__ and if; a file that contains the guard is
\* not returned; for {x: [], y: [x]} with two files that lack the words
\* the result is [y].
C23_UnusedByWords ==
  Returned("identify_unused_files") =>
    /\ ListsSorted(call.result,
                   {f \in DOMAIN dependency_map :
                      /\ NotListed(f) /\ ~EntryPointName(f)
                      /\ ~(HasWord(f, "__name__") /\ HasWord(f, "__main__")
                             /\ HasWord(f, "if"))})
    /\ \A f \in Range(call.result) : ~ContainsGuard(f)
    /\ (/\ dependency_map = (FileMissing :> <<>>) @@ (FileY :> <<FileMissing>>)
        /\ ~HasWord(FileMissing, "if") /\ ~HasWord(FileY, "if"))
         => call.result = <<FileY>>

\* C23: identify_unused_files has returned y.py alone for a map of three
\* keys: x.py is listed by y.py, and pkg/app.py, which no key lists, has
\* an entry-point name; y.py has a conditional expression and no guard.
C23_Witness ==
  /\ Returned("identify_unused_files")
  /\ DOMAIN dependency_map = UnusedFiles
  /\ dependency_map[FileY] = <<FileMissing>>
  /\ NotListed(FilePkgApp)
  /\ call.result = <<FileY>>
  /\ FileY \in DOMAIN fs /\ fs[FileY] = <<Conditional>>

(***************************************************************************)
(* A project from the build to the analyses: main.py imports util, util.py *)
(* imports nothing, orphan.py imports nothing and nothing imports it.      *)
(* map_dependencies is called for the whole tree, from main.py or from     *)
(* x.py, which is not there; then identify_systems and                     *)
(* identify_unused_files are called, in any order, a few times.            *)
(***************************************************************************)
\* The number of calls of the Analyzer after a build.
MaxCalls == 3

SpecUtil   == <<"util">>
FileMain   == <<"main">> \o PY
FileUtil   == <<"util">> \o PY
FileOrphan == <<"orphan">> \o PY

\* The snapshots of the project: main.py with or without a guard, what
\* orphan.py holds beside import statements, with or without the file
\* pkg/notes.txt.
ProjectSnapshots ==
  { (FileMain :> main) @@ (FileUtil :> <<>>) @@ (FileOrphan :> orphan) @@ notes :
      main   \in {<<Import(<<SpecUtil>>)>>, <<Import(<<SpecUtil>>), Guard>>},
      orphan \in {<<>>, <<Conditional>>, <<Mention, Conditional>>, <<Guard>>},
      notes  \in {<<>>, (FileNotes :> <<>>)} }

InitProject ==
  /\ fs \in ProjectSnapshots
  /\ start_file \in {None, FileMain, FileMissing}
  /\ pc = "new"
  /\ walk = <<>>
  /\ stack = <<>>
  /\ dependency_map = <<>>
  /\ processed_files = {}
  /\ parse_calls = <<>>
  /\ probes = {}
  /\ diagnostics = <<>>
  /\ call = <<>>

\* The functions of the Analyzer.
AnalyzerOps == {"identify_systems", "identify_unused_files"}

\* The caller goes on to the analyses.  The keys of the dict come in
\* some order and sets are iterated over in some order, both the same
\* for all the calls; what the mapper holds now is kept for comparison,
\* and so is, in a list of one, what each function returned last.
BeginAnalysis ==
  /\ pc = "done"
  /\ call = <<>>
  /\ call' \in [op        : AnalyzerOps,
                items     : Perms(DOMAIN dependency_map),
                iteration : Orders(DOMAIN dependency_map),
                result    : {None},
                calls     : {1},
                earlier   : {[op \in AnalyzerOps |-> <<>>]},
                built     : {[dependency_map |-> dependency_map,
                              processed_files |-> processed_files]}]
  /\ pc' = "call"
  /\ UNCHANGED <<fs, start_file, walk, stack, dependency_map, processed_files,
                 parse_calls, probes, diagnostics>>

\* A pass that keeps its reverse map in self.dependency_map.
dependency_map_reversed(map, items) == reverse_map(map, items)

\* self.dependency_map after a call of identify_systems or of
\* identify_unused_files: both assign to their local variables only.
dependency_map_after(map, items) == map

\* mapper.identify_systems()
IdentifySystems ==
  /\ pc = "call" /\ call.op = "identify_systems"
  /\ call' = [call EXCEPT !.result =
                identify_systems(dependency_map, call.items, call.iteration)]
  /\ dependency_map' = dependency_map_after(dependency_map, call.items)
  /\ pc' = "returned"
  /\ UNCHANGED <<fs, start_file, walk, stack, processed_files,
                 parse_calls, probes, diagnostics>>

\* mapper.identify_unused_files()
IdentifyUnusedFiles ==
  /\ pc = "call" /\ call.op = "identify_unused_files"
  /\ call' = [call EXCEPT !.result =
                identify_unused_files(dependency_map, call.items)]
  /\ dependency_map' = dependency_map_after(dependency_map, call.items)
  /\ pc' = "returned"
  /\ UNCHANGED <<fs, start_file, walk, stack, processed_files,
                 parse_calls, probes, diagnostics>>

\* The caller keeps the result and calls the Analyzer again.
CallAgain ==
  /\ pc = "returned"
  /\ call.calls < MaxCalls
  /\ \E op \in AnalyzerOps :
       call' = [call EXCEPT !.op = op,
                            !.result = None,
                            !.calls = @ + 1,
                            !.earlier[call.op] = <<call.result>>]
  /\ pc' = "call"
  /\ UNCHANGED <<fs, start_file, walk, stack, dependency_map, processed_files,
                 parse_calls, probes, diagnostics>>

NextProject ==
  \/ Next
  \/ BeginAnalysis
  \/ IdentifySystems
  \/ IdentifyUnusedFiles
  \/ CallAgain

ProjectSpec == InitProject /\ [][NextProject]_vars

\* The Dependency Map of the project: {main: [util], util: [], orphan: []}.
ProjectMap ==
  (FileMain :> <<FileUtil>>) @@ (FileUtil :> <<>>) @@ (FileOrphan :> <<>>)

\* C24: for the project, orphan.py being without a script guard, the map
\* of the whole tree is {main: [util], util: [], orphan: []},
\* identify_unused_files returns orphan.py alone and identify_systems
\* returns one system, of main.py and util.py.
C24_EndToEnd ==
  (start_file = None /\ ~ContainsGuard(FileOrphan)) =>
    /\ pc \in {"done", "call", "returned"} => dependency_map = ProjectMap
    /\ Returned("identify_unused_files") => call.result = <<FileOrphan>>
    /\ Returned("identify_systems") =>
         /\ Len(call.result) = 1
         /\ Range(call.result[1].files) = {FileMain, FileUtil}

\* C24 for an orphan.py that lacks one of the words __name__, __main__
\* and if: the map, the unused files and the systems are as stated.
C24_EndToEndByWords ==
  (/\ start_file = None
   /\ ~(HasWord(FileOrphan, "__name__") /\ HasWord(FileOrphan, "__main__")
          /\ HasWord(FileOrphan, "if"))) =>
    /\ pc \in {"done", "call", "returned"} => dependency_map = ProjectMap
    /\ Returned("identify_unused_files") => call.result = <<FileOrphan>>
    /\ Returned("identify_systems") =>
         /\ Len(call.result) = 1
         /\ Range(call.result[1].files) = {FileMain, FileUtil}

MaxStatements == 3

FromImport(m, names) == [kind |-> "from", names |-> names, module |-> m]

NameX == <<"x">>
NameY == <<"y">>

ParsedStatements ==
  { Import(<<SpecA>>),
    Import(<<SpecA, SpecPkgC>>),
    FromImport(SpecB, <<NameX, NameY>>),
    FromImport(SpecPkgC, <<NameX>>),
    FromImport(None, <<NameX>>),
    Guard,
    BadSyntax }

InitParser ==
  /\ fs \in {(FileA :> content) : content \in SeqsUpTo(ParsedStatements, MaxStatements)}
  /\ call = [op |-> "extract_imports", file_path |-> FileA, result |-> None]
  /\ pc = "call"
  /\ dependency_map = <<>>
  /\ start_file = None
  /\ walk = <<>>
  /\ stack = <<>>
  /\ processed_files = {}
  /\ parse_calls = <<>>
  /\ probes = {}
  /\ diagnostics = <<>>

CallExtractImports ==
  /\ pc = "call" /\ call.op = "extract_imports"
  /\ call' = [call EXCEPT !.result = extract_imports(call.file_path)]
  /\ pc' = "returned"
  /\ UNCHANGED <<fs, start_file, walk, stack, dependency_map, processed_files,
                 parse_calls, probes, diagnostics>>

ParserSpec == InitParser /\ [][CallExtractImports]_vars

\* How often x stands in the sequence.
Occurrences(seq, x) == Cardinality({i \in 1..Len(seq) : seq[i] = x})

RECURSIVE Named(_, _)
\* How often the statements name the specifier: once for each time it is
\* a name of an import statement, once for each from-import it is the
\* module part of.
Named(stmts, specifier) ==
  IF stmts = <<>> THEN 0
  ELSE (IF Head(stmts).kind = "import"
          THEN Occurrences(Head(stmts).names, specifier)
        ELSE IF Head(stmts).kind = "from" /\ Head(stmts).module = specifier
          THEN 1
        ELSE 0) + Named(Tail(stmts), specifier)

\* C26: for a file that can be parsed, extract_imports yields a specifier
\* as often as import statements name it and from-imports have it for
\* their module part, and nothing else: not the names a from-import
\* brings in, and nothing for a from-import without a module part.
C26_SpecifiersExtracted ==
  (Returned("extract_imports") /\ ~Unparseable(call.file_path)) =>
    /\ \A specifier \in {SpecA, SpecB, SpecPkgC} :
         Occurrences(call.result, specifier) = Named(fs[call.file_path], specifier)
    /\ Range(call.result) \subseteq {SpecA, SpecB, SpecPkgC}

\* C26: extract_imports has returned for a file that holds
\* 'import a, pkg.c', 'from b import x, y' and 'from . import x'.
C26_Witness ==
  /\ Returned("extract_imports")
  /\ fs[FileA] = <<Import(<<SpecA, SpecPkgC>>),
                   FromImport(SpecB, <<NameX, NameY>>),
                   FromImport(None, <<NameX>>)>>
  /\ call.result = <<SpecA, SpecPkgC, SpecB>>

(***************************************************************************)
(* The UI (src/dependency_mapper_ui.py).  The Generate button starts a     *)
(* thread that runs _generate_map_thread; nothing keeps the button from    *)
(* being pressed again while a thread runs, and the files of the source    *)
(* folder can be edited in between.  The threads share the attributes of   *)
(* the DependencyMapperUI object: dependency_map (the variable of that     *)
(* name), reverse_dependency_map, systems and unused_files (fields of      *)
(* 'call'); each thread has a DependencyMapper of its own.  A step of a    *)
(* thread is one statement of _generate_map_thread, the three parts of     *)
(* _build_reverse_dependency_map being a step each.  The keys of a dict    *)
(* and the members of a set are taken in sorted order.                     *)
(***************************************************************************)
\* The number of threads started, the number of times the files are
\* edited, and the number of import statements in the source folder.
MaxWorkers   == 2
MaxEdits     == 1
MaxUIImports == 1

\* The source folder: a.py and b.py with their import statements.
UISnapshots == Contents({FileA, FileB}, MaxUIImports)

\* mapper.map_dependencies() as one step: every source file under the
\* root with the list its import statements resolve to.
whole_tree_map ==
  [f \in SourceFiles |-> dependencies_of(resolve_all(extract_imports(f), f), f)]

\* A thread at the top of _generate_map_thread.
Worker ==
  [at |-> "map", mapper |-> <<>>, initialised |-> <<>>, filled |-> <<>>]

InitUI ==
  /\ fs \in UISnapshots
  /\ dependency_map = <<>>
  /\ call = [reverse_dependency_map |-> <<>>,
             systems |-> <<>>,
             unused_files |-> <<>>,
             workers |-> <<>>,
             edits |-> 0]
  /\ pc = "ui"
  /\ start_file = None
  /\ walk = <<>>
  /\ stack = <<>>
  /\ processed_files = {}
  /\ parse_calls = <<>>
  /\ probes = {}
  /\ diagnostics = <<>>

\* _generate_map, on the UI thread: a thread is started.
GenerateMap ==
  /\ pc = "ui"
  /\ Len(call.workers) < MaxWorkers
  /\ call' = [call EXCEPT !.workers = Append(@, Worker)]
  /\ UNCHANGED <<fs, start_file, pc, walk, stack, dependency_map,
                 processed_files, parse_calls, probes, diagnostics>>

\* The user edits the files of the source folder.
EditFiles ==
  /\ pc = "ui"
  /\ call.edits < MaxEdits
  /\ fs' \in UISnapshots \ {fs}
  /\ call' = [call EXCEPT !.edits = @ + 1]
  /\ UNCHANGED <<start_file, pc, walk, stack, dependency_map,
                 processed_files, parse_calls, probes, diagnostics>>

\* self.dependency_map = mapper.map_dependencies()
WorkerMap ==
  \E w \in 1..Len(call.workers) :
    /\ call.workers[w].at = "map"
    /\ dependency_map' = whole_tree_map
    /\ call' = [call EXCEPT !.workers[w].at = "reset",
                            !.workers[w].mapper = whole_tree_map]
    /\ UNCHANGED <<fs, start_file, pc, walk, stack,
                   processed_files, parse_calls, probes, diagnostics>>

\* self.reverse_dependency_map = {}
WorkerResetReverse ==
  \E w \in 1..Len(call.workers) :
    /\ call.workers[w].at = "reset"
    /\ call' = [call EXCEPT !.workers[w].at = "init",
                            !.reverse_dependency_map = <<>>]
    /\ UNCHANGED <<fs, start_file, pc, walk, stack, dependency_map,
                   processed_files, parse_calls, probes, diagnostics>>

\* 'for file_path in self.dependency_map.keys():
\*      self.reverse_dependency_map[file_path] = []', the thread noting
\* the map it takes the keys of.
WorkerInitReverse ==
  \E w \in 1..Len(call.workers) :
    /\ call.workers[w].at = "init"
    /\ call' = [call EXCEPT
                  !.workers[w].at = "fill",
                  !.workers[w].initialised = dependency_map,
                  !.reverse_dependency_map =
                     [file_path \in DOMAIN dependency_map \cup DOMAIN @ |->
                        IF file_path \in DOMAIN dependency_map THEN <<>>
                        ELSE @[file_path]]]
    /\ UNCHANGED <<fs, start_file, pc, walk, stack, dependency_map,
                   processed_files, parse_calls, probes, diagnostics>>

\* 'for file_path, dependencies in self.dependency_map.items(): ...
\*      self.reverse_dependency_map[dependency].append(file_path)', the
\* thread noting the map it takes the items of.
WorkerFillReverse ==
  \E w \in 1..Len(call.workers) :
    /\ call.workers[w].at = "fill"
    /\ call' = [call EXCEPT
                  !.workers[w].at = "systems",
                  !.workers[w].filled = dependency_map,
                  !.reverse_dependency_map =
                     [dependency \in DOMAIN @ |->
                        @[dependency]
                          \o importers_of(dependency_map,
                                          sorted(DOMAIN dependency_map), dependency)]]
    /\ UNCHANGED <<fs, start_file, pc, walk, stack, dependency_map,
                   processed_files, parse_calls, probes, diagnostics>>

\* self.systems = mapper.identify_systems()
WorkerSystems ==
  \E w \in 1..Len(call.workers) :
    /\ call.workers[w].at = "systems"
    /\ LET mapper == call.workers[w].mapper
       IN  call' = [call EXCEPT
                      !.workers[w].at = "unused",
                      !.systems = identify_systems(mapper, sorted(DOMAIN mapper),
                                                   sorted(DOMAIN mapper))]
    /\ UNCHANGED <<fs, start_file, pc, walk, stack, dependency_map,
                   processed_files, parse_calls, probes, diagnostics>>

\* self.unused_files = mapper.identify_unused_files()
WorkerUnused ==
  \E w \in 1..Len(call.workers) :
    /\ call.workers[w].at = "unused"
    /\ LET mapper == call.workers[w].mapper
       IN  call' = [call EXCEPT
                      !.workers[w].at = "finished",
                      !.unused_files =
                         identify_unused_files(mapper, sorted(DOMAIN mapper))]
    /\ UNCHANGED <<fs, start_file, pc, walk, stack, dependency_map,
                   processed_files, parse_calls, probes, diagnostics>>

NextUI ==
  \/ GenerateMap
  \/ EditFiles
  \/ WorkerMap
  \/ WorkerResetReverse
  \/ WorkerInitReverse
  \/ WorkerFillReverse
  \/ WorkerSystems
  \/ WorkerUnused

UISpec == InitUI /\ [][NextUI]_vars

\* Threads have been started and all of them have finished.
WorkersFinished ==
  /\ call.workers /= <<>>
  /\ \A w \in 1..Len(call.workers) : call.workers[w].at = "finished"

\* C27: whenever the threads have finished, the stored reverse map, the
\* stored systems and the stored unused files are those of the stored
\* dependency_map; and a thread fills the reverse map from the
\* dependency_map it initialised it from.
C27_StoredViewsAgree ==
  /\ WorkersFinished =>
       LET items == sorted(DOMAIN dependency_map)
       IN  /\ call.reverse_dependency_map
                = build_reverse_dependency_map(dependency_map, items)
           /\ call.systems = identify_systems(dependency_map, items, items)
           /\ call.unused_files = identify_unused_files(dependency_map, items)
  /\ \A w \in 1..Len(call.workers) :
       call.workers[w].at \in {"systems", "unused", "finished"}
         => call.workers[w].filled = call.workers[w].initialised

\* C27 for one thread: when the only thread has finished, the stored
\* reverse map, systems and unused files are those of the stored
\* dependency_map.
C27_OneWorker ==
  (WorkersFinished /\ Len(call.workers) = 1) =>
    LET items == sorted(DOMAIN dependency_map)
    IN  /\ call.reverse_dependency_map
             = build_reverse_dependency_map(dependency_map, items)
        /\ call.systems = identify_systems(dependency_map, items, items)
        /\ call.unused_files = identify_unused_files(dependency_map, items)

(***************************************************************************)
(* The Builder again: what a list depends on, and the shape of the map.    *)
(***************************************************************************)
\* The map obtained by processing every source file on its own, without
\* recursion: the list its import statements stand for, none if the file
\* cannot be parsed.
IndependentMap ==
  [f \in SourceFiles |->
     IF Unparseable(f) THEN <<>> ELSE ContentDependencies(f)]

C29_KeysProcessedAndClosed ==
  /\ DOMAIN dependency_map \subseteq processed_files
  /\ pc = "done" =>
       /\ DOMAIN dependency_map = processed_files
       /\ \A f \in DOMAIN dependency_map :
            Range(dependency_map[f]) \subseteq DOMAIN dependency_map

\* C29: map_dependencies has returned a map in which a file has two
\* dependencies, one of which has a dependency of its own.
C29_Witness ==
  /\ pc = "done"
  /\ \E f \in DOMAIN dependency_map :
       /\ Cardinality(Range(dependency_map[f])) >= 2
       /\ \E g \in Range(dependency_map[f]) : dependency_map[g] /= <<>>

====
